---- MODULE Spec2Model ----
(***************************************************************************)
(* A model of two parts of the PackageDev plugin:                          *)
(*                                                                         *)
(*   - the settings knowledge base (src/settings.py, class KnownSettings): *)
(*     the scan of all installed settings resources, the naive comment     *)
(*     scanner _parse_settings and the merge into `defaults`/`comments`;   *)
(*   - the scope completions of syntax definitions                         *)
(*     (src/plugins/syntax_dev/completions.py, _complete_scope and         *)
(*     _complete_base_scope) over the scope naming conventions             *)
(*     (src/plugins_/lib/scope_data/data.py).                              *)
(*                                                                         *)
(* Text is modelled as sequences of one-character strings, so that strip,  *)
(* startswith, the key regex and the JSON decoder are computed on the      *)
(* characters as the code computes them.  Scope strings and resource paths *)
(* are modelled as sequences of atoms (a separator or a separator-free     *)
(* piece), on which split and the substring tests are exact.               *)
(***************************************************************************)
EXTENDS Integers, Sequences, FiniteSets, TLC

VARIABLES
    \* ---- settings knowledge base (one KnownSettings object) ----
    world,        \* the installed resources, in the host's enumeration order
    filename,     \* KnownSettings.filename, as <<root, extension>>
    defaults,     \* KnownSettings.defaults
    comments,     \* KnownSettings.comments
    pc,           \* position of the scheduled _load_settings task
    resources,    \* _load_settings: the local list `resources`
    idx,          \* _load_settings: position of the for loop in `resources`
    loaded,       \* history: the paths handed to sublime.load_resource
    errors,       \* history: the paths whose processing was logged by l.error
    on_loaded,    \* history: number of calls of the on_loaded callback
    \* ---- _parse_settings run line by line on one list of lines ----
    lines,        \* the argument `lines`
    lineno,       \* number of lines consumed by the for loop
    scan,         \* the locals content, comment, in_comment
    \* ---- syntax definition view and its completions listener ----
    regions,      \* view.find_by_selector("meta.scope string - meta.block")
    typed,        \* the line up to the caret, as atoms
    carets,       \* line prefixes of the further carets, relative to `typed`
    base_suffix,  \* SyntaxDefCompletionsListener.base_suffix
    result,       \* the value returned by the last completion query
    statuses,     \* the status messages emitted by the last completion query
    \* ---- a value completion query on a settings view ----
    vquery,       \* the query: the key at the caret and what the view says
    vanswer,      \* what _value_completions_for and value_completions gave
    \* ---- settings views, their listeners and the host's async thread ----
    listeners,    \* the SettingsListener objects, in the order of creation
    objects,      \* the KnownSettings objects, in the order of creation
    tasks,        \* the _load_settings calls scheduled by set_timeout_async
    main,         \* the handler the main thread is in the middle of
    observed,     \* the query a listener answered in the last step
    views,        \* the view of every listener: its keys and its region set
    linted,       \* the do_linting run in the last step: its listener, and
                  \* the path of the view and the package setting
                  \* 'settings.linting' it read
    \* ---- the commit command of the syntax definition view ----
    after,        \* the line from the caret on, as atoms
    commands      \* the host commands run by the handler of the last step

kbvars == <<world, filename, defaults, comments, pc, resources, idx,
            loaded, errors, on_loaded>>
psvars == <<lines, lineno, scan>>
scvars == <<regions, typed, carets, base_suffix, result, statuses>>
vcvars == <<vquery, vanswer>>
rlvars == <<listeners, objects, tasks, main, observed, views, linted>>
ccvars == <<after, commands>>
vars == <<kbvars, psvars, scvars, vcvars, rlvars, ccvars>>

\* Python's None, and a value that may be None
None == [none |-> TRUE]
Some(x) == [some |-> x]

-----------------------------------------------------------------------------
\* Bounds of the model

\* installed resources in a world
MaxResources == 3
\* lines of a text handed to _parse_settings on its own
MaxLines == 3
\* atoms (segments and dots) typed into a scope
MaxTyped == 5

-----------------------------------------------------------------------------
\* Strings as sequences of characters

\* A character is a one-character string of this notation, or, where the
\* notation has none, an atom named by its Python escape with lower-case
\* hexadecimal digits: "\\x0b", "\\xe9", "\\u0661", "\\U0001d7ce".

LowerCase ==
    <<"a", "b", "c", "d", "e", "f", "g", "h", "i", "j", "k", "l", "m",
      "n", "o", "p", "q", "r", "s", "t", "u", "v", "w", "x", "y", "z">>

UpperCase ==
    <<"A", "B", "C", "D", "E", "F", "G", "H", "I", "J", "K", "L", "M",
      "N", "O", "P", "Q", "R", "S", "T", "U", "V", "W", "X", "Y", "Z">>

\* the backquote character, which a string of this notation cannot hold
BackTick == "backquote"

\* the characters of the code points 32 to 126
Printable ==
    <<" ", "!", "\"", "#", "$", "%", "&", "'", "(", ")", "*", "+", ",", "-",
      ".", "/", "0", "1", "2", "3", "4", "5", "6", "7", "8", "9", ":", ";",
      "<", "=", ">", "?", "@">>
    \o UpperCase \o <<"[", "\\", "]", "^", "_", BackTick>> \o LowerCase
    \o <<"{", "|", "}", "~">>

Hex ==
    <<"0", "1", "2", "3", "4", "5", "6", "7", "8", "9", "a", "b", "c", "d",
      "e", "f">>

\* the value of the hexadecimal digits of a name
RECURSIVE HexValue(_, _)
HexValue(name, acc) ==
    IF name = "" THEN acc
    ELSE HexValue(Tail(name),
                  16 * acc + (CHOOSE i \in 1..16 : Hex[i] = Head(name)) - 1)

\* n in `width` hexadecimal digits
RECURSIVE HexStr(_, _)
HexStr(n, width) ==
    IF width = 0 THEN ""
    ELSE HexStr(n \div 16, width - 1) \o Hex[(n % 16) + 1]

\* ord(c), the code point of a character
ord(c) ==
    IF c = BackTick THEN 96
    ELSE IF Len(c) > 1 THEN HexValue(SubSeq(c, 3, Len(c)), 0)
    ELSE IF c = "\t" THEN 9
    ELSE IF c = "\n" THEN 10
    ELSE IF c = "\f" THEN 12
    ELSE IF c = "\r" THEN 13
    ELSE 31 + (CHOOSE i \in 1..95 : Printable[i] = c)

\* chr(n), the character of a code point
chr(n) ==
    IF n = 9 THEN "\t"
    ELSE IF n = 10 THEN "\n"
    ELSE IF n = 12 THEN "\f"
    ELSE IF n = 13 THEN "\r"
    ELSE IF n >= 32 /\ n <= 126 THEN Printable[n - 31]
    ELSE (IF n < 256 THEN "\\x" ELSE IF n < 65536 THEN "\\u" ELSE "\\U")
         \o HexStr(n, IF n < 256 THEN 2 ELSE IF n < 65536 THEN 4 ELSE 8)

\* the code points of the characters of a string, and back
Ords(s) == [i \in 1..Len(s) |-> ord(s[i])]

Chrs(points) == [i \in 1..Len(points) |-> chr(points[i])]

\* the index of the range of the sorted `ranges` that holds n, 0 for none
RECURSIVE RangeBetween(_, _, _, _)
RECURSIVE RangeAt(_, _, _, _, _)
RangeAt(n, ranges, lo, hi, mid) ==
    IF n < ranges[mid][1] THEN RangeBetween(n, ranges, lo, mid - 1)
    ELSE IF n > ranges[mid][2] THEN RangeBetween(n, ranges, mid + 1, hi)
    ELSE mid

RangeBetween(n, ranges, lo, hi) ==
    IF lo > hi THEN 0 ELSE RangeAt(n, ranges, lo, hi, (lo + hi) \div 2)

RangeOf(n, ranges) == RangeBetween(n, ranges, 1, Len(ranges))

\* A table of ranges of code points is written as the hexadecimal digits of
\* its numbers, six digits each, `width` numbers a row.
Ranges(width, digits) ==
    [i \in 1..(Len(digits) \div (6 * width)) |->
        [j \in 1..width |->
            HexValue(SubSeq(digits, 6 * (width * (i - 1) + j) - 5,
                            6 * (width * (i - 1) + j)), 0)]]

\* the ranges of the code points str.isalnum() is true for
Alphanumeric ==
    Ranges(2,
        "00003000003900004100005a00006100007a0000aa0000aa0000b20000b30000b50000b5"
        \o "0000b90000ba0000bc0000be0000c00000d60000d80000f60000f80002c10002c60002d1"
        \o "0002e00002e40002ec0002ec0002ee0002ee00037000037400037600037700037a00037d"
        \o "00037f00037f00038600038600038800038a00038c00038c00038e0003a10003a30003f5"
        \o "0003f700048100048a00052f0005310005560005590005590005600005880005d00005ea"
        \o "0005ef0005f200062000064a00066000066900066e00066f0006710006d30006d50006d5"
        \o "0006e50006e60006ee0006fc0006ff0006ff00071000071000071200072f00074d0007a5"
        \o "0007b10007b10007c00007ea0007f40007f50007fa0007fa00080000081500081a00081a"
        \o "00082400082400082800082800084000085800086000086a00087000088700088900088e"
        \o "0008a00008c900090400093900093d00093d00095000095000095800096100096600096f"
        \o "00097100098000098500098c00098f0009900009930009a80009aa0009b00009b20009b2"
        \o "0009b60009b90009bd0009bd0009ce0009ce0009dc0009dd0009df0009e10009e60009f1"
        \o "0009f40009f90009fc0009fc000a05000a0a000a0f000a10000a13000a28000a2a000a30"
        \o "000a32000a33000a35000a36000a38000a39000a59000a5c000a5e000a5e000a66000a6f"
        \o "000a72000a74000a85000a8d000a8f000a91000a93000aa8000aaa000ab0000ab2000ab3"
        \o "000ab5000ab9000abd000abd000ad0000ad0000ae0000ae1000ae6000aef000af9000af9"
        \o "000b05000b0c000b0f000b10000b13000b28000b2a000b30000b32000b33000b35000b39"
        \o "000b3d000b3d000b5c000b5d000b5f000b61000b66000b6f000b71000b77000b83000b83"
        \o "000b85000b8a000b8e000b90000b92000b95000b99000b9a000b9c000b9c000b9e000b9f"
        \o "000ba3000ba4000ba8000baa000bae000bb9000bd0000bd0000be6000bf2000c05000c0c"
        \o "000c0e000c10000c12000c28000c2a000c39000c3d000c3d000c58000c5a000c5d000c5d"
        \o "000c60000c61000c66000c6f000c78000c7e000c80000c80000c85000c8c000c8e000c90"
        \o "000c92000ca8000caa000cb3000cb5000cb9000cbd000cbd000cdd000cde000ce0000ce1"
        \o "000ce6000cef000cf1000cf2000d04000d0c000d0e000d10000d12000d3a000d3d000d3d"
        \o "000d4e000d4e000d54000d56000d58000d61000d66000d78000d7a000d7f000d85000d96"
        \o "000d9a000db1000db3000dbb000dbd000dbd000dc0000dc6000de6000def000e01000e30"
        \o "000e32000e33000e40000e46000e50000e59000e81000e82000e84000e84000e86000e8a"
        \o "000e8c000ea3000ea5000ea5000ea7000eb0000eb2000eb3000ebd000ebd000ec0000ec4"
        \o "000ec6000ec6000ed0000ed9000edc000edf000f00000f00000f20000f33000f40000f47"
        \o "000f49000f6c000f88000f8c00100000102a00103f00104900105000105500105a00105d"
        \o "00106100106100106500106600106e00107000107500108100108e00108e001090001099"
        \o "0010a00010c50010c70010c70010cd0010cd0010d00010fa0010fc00124800124a00124d"
        \o "00125000125600125800125800125a00125d00126000128800128a00128d0012900012b0"
        \o "0012b20012b50012b80012be0012c00012c00012c20012c50012c80012d60012d8001310"
        \o "00131200131500131800135a00136900137c00138000138f0013a00013f50013f80013fd"
        \o "00140100166c00166f00167f00168100169a0016a00016ea0016ee0016f8001700001711"
        \o "00171f00173100174000175100176000176c00176e0017700017800017b30017d70017d7"
        \o "0017dc0017dc0017e00017e90017f00017f9001810001819001820001878001880001884"
        \o "0018870018a80018aa0018aa0018b00018f500190000191e00194600196d001970001974"
        \o "0019800019ab0019b00019c90019d00019da001a00001a16001a20001a54001a80001a89"
        \o "001a90001a99001aa7001aa7001b05001b33001b45001b4c001b50001b59001b83001ba0"
        \o "001bae001be5001c00001c23001c40001c49001c4d001c7d001c80001c88001c90001cba"
        \o "001cbd001cbf001ce9001cec001cee001cf3001cf5001cf6001cfa001cfa001d00001dbf"
        \o "001e00001f15001f18001f1d001f20001f45001f48001f4d001f50001f57001f59001f59"
        \o "001f5b001f5b001f5d001f5d001f5f001f7d001f80001fb4001fb6001fbc001fbe001fbe"
        \o "001fc2001fc4001fc6001fcc001fd0001fd3001fd6001fdb001fe0001fec001ff2001ff4"
        \o "001ff6001ffc00207000207100207400207900207f00208900209000209c002102002102"
        \o "00210700210700210a00211300211500211500211900211d002124002124002126002126"
        \o "00212800212800212a00212d00212f00213900213c00213f00214500214900214e00214e"
        \o "00215000218900246000249b0024ea0024ff002776002793002c00002ce4002ceb002cee"
        \o "002cf2002cf3002cfd002cfd002d00002d25002d27002d27002d2d002d2d002d30002d67"
        \o "002d6f002d6f002d80002d96002da0002da6002da8002dae002db0002db6002db8002dbe"
        \o "002dc0002dc6002dc8002dce002dd0002dd6002dd8002dde002e2f002e2f003005003007"
        \o "00302100302900303100303500303800303c00304100309600309d00309f0030a10030fa"
        \o "0030fc0030ff00310500312f00313100318e0031920031950031a00031bf0031f00031ff"
        \o "00322000322900324800324f00325100325f0032800032890032b10032bf003400004dbf"
        \o "004e0000a48c00a4d000a4fd00a50000a60c00a61000a62b00a64000a66e00a67f00a69d"
        \o "00a6a000a6ef00a71700a71f00a72200a78800a78b00a7ca00a7d000a7d100a7d300a7d3"
        \o "00a7d500a7d900a7f200a80100a80300a80500a80700a80a00a80c00a82200a83000a835"
        \o "00a84000a87300a88200a8b300a8d000a8d900a8f200a8f700a8fb00a8fb00a8fd00a8fe"
        \o "00a90000a92500a93000a94600a96000a97c00a98400a9b200a9cf00a9d900a9e000a9e4"
        \o "00a9e600a9fe00aa0000aa2800aa4000aa4200aa4400aa4b00aa5000aa5900aa6000aa76"
        \o "00aa7a00aa7a00aa7e00aaaf00aab100aab100aab500aab600aab900aabd00aac000aac0"
        \o "00aac200aac200aadb00aadd00aae000aaea00aaf200aaf400ab0100ab0600ab0900ab0e"
        \o "00ab1100ab1600ab2000ab2600ab2800ab2e00ab3000ab5a00ab5c00ab6900ab7000abe2"
        \o "00abf000abf900ac0000d7a300d7b000d7c600d7cb00d7fb00f90000fa6d00fa7000fad9"
        \o "00fb0000fb0600fb1300fb1700fb1d00fb1d00fb1f00fb2800fb2a00fb3600fb3800fb3c"
        \o "00fb3e00fb3e00fb4000fb4100fb4300fb4400fb4600fbb100fbd300fd3d00fd5000fd8f"
        \o "00fd9200fdc700fdf000fdfb00fe7000fe7400fe7600fefc00ff1000ff1900ff2100ff3a"
        \o "00ff4100ff5a00ff6600ffbe00ffc200ffc700ffca00ffcf00ffd200ffd700ffda00ffdc"
        \o "01000001000b01000d01002601002801003a01003c01003d01003f01004d01005001005d"
        \o "0100800100fa01010701013301014001017801018a01018b01028001029c0102a00102d0"
        \o "0102e10102fb01030001032301032d01034a01035001037501038001039d0103a00103c3"
        \o "0103c80103cf0103d10103d501040001049d0104a00104a90104b00104d30104d80104fb"
        \o "01050001052701053001056301057001057a01057c01058a01058c010592010594010595"
        \o "0105970105a10105a30105b10105b30105b90105bb0105bc010600010736010740010755"
        \o "0107600107670107800107850107870107b00107b20107ba010800010805010808010808"
        \o "01080a01083501083701083801083c01083c01083f01085501085801087601087901089e"
        \o "0108a70108af0108e00108f20108f40108f50108fb01091b0109200109390109800109b7"
        \o "0109bc0109cf0109d2010a00010a10010a13010a15010a17010a19010a35010a40010a48"
        \o "010a60010a7e010a80010a9f010ac0010ac7010ac9010ae4010aeb010aef010b00010b35"
        \o "010b40010b55010b58010b72010b78010b91010ba9010baf010c00010c48010c80010cb2"
        \o "010cc0010cf2010cfa010d23010d30010d39010e60010e7e010e80010ea9010eb0010eb1"
        \o "010f00010f27010f30010f45010f51010f54010f70010f81010fb0010fcb010fe0010ff6"
        \o "01100301103701105201106f0110710110720110750110750110830110af0110d00110e8"
        \o "0110f00110f901110301112601113601113f011144011144011147011147011150011172"
        \o "0111760111760111830111b20111c10111c40111d00111da0111dc0111dc0111e10111f4"
        \o "01120001121101121301122b01128001128601128801128801128a01128d01128f01129d"
        \o "01129f0112a80112b00112de0112f00112f901130501130c01130f011310011313011328"
        \o "01132a01133001133201133301133501133901133d01133d01135001135001135d011361"
        \o "01140001143401144701144a01145001145901145f0114610114800114af0114c40114c5"
        \o "0114c70114c70114d00114d90115800115ae0115d80115db01160001162f011644011644"
        \o "0116500116590116800116aa0116b80116b80116c00116c901170001171a01173001173b"
        \o "01174001174601180001182b0118a00118f20118ff01190601190901190901190c011913"
        \o "01191501191601191801192f01193f01193f0119410119410119500119590119a00119a7"
        \o "0119aa0119d00119e10119e10119e30119e3011a00011a00011a0b011a32011a3a011a3a"
        \o "011a50011a50011a5c011a89011a9d011a9d011ab0011af8011c00011c08011c0a011c2e"
        \o "011c40011c40011c50011c6c011c72011c8f011d00011d06011d08011d09011d0b011d30"
        \o "011d46011d46011d50011d59011d60011d65011d67011d68011d6a011d89011d98011d98"
        \o "011da0011da9011ee0011ef2011fb0011fb0011fc0011fd401200001239901240001246e"
        \o "012480012543012f90012ff001300001342e014400014646016800016a38016a40016a5e"
        \o "016a60016a69016a70016abe016ac0016ac9016ad0016aed016b00016b2f016b40016b43"
        \o "016b50016b59016b5b016b61016b63016b77016b7d016b8f016e40016e96016f00016f4a"
        \o "016f50016f50016f93016f9f016fe0016fe1016fe3016fe30170000187f7018800018cd5"
        \o "018d00018d0801aff001aff301aff501affb01affd01affe01b00001b12201b15001b152"
        \o "01b16401b16701b17001b2fb01bc0001bc6a01bc7001bc7c01bc8001bc8801bc9001bc99"
        \o "01d2e001d2f301d36001d37801d40001d45401d45601d49c01d49e01d49f01d4a201d4a2"
        \o "01d4a501d4a601d4a901d4ac01d4ae01d4b901d4bb01d4bb01d4bd01d4c301d4c501d505"
        \o "01d50701d50a01d50d01d51401d51601d51c01d51e01d53901d53b01d53e01d54001d544"
        \o "01d54601d54601d54a01d55001d55201d6a501d6a801d6c001d6c201d6da01d6dc01d6fa"
        \o "01d6fc01d71401d71601d73401d73601d74e01d75001d76e01d77001d78801d78a01d7a8"
        \o "01d7aa01d7c201d7c401d7cb01d7ce01d7ff01df0001df1e01e10001e12c01e13701e13d"
        \o "01e14001e14901e14e01e14e01e29001e2ad01e2c001e2eb01e2f001e2f901e7e001e7e6"
        \o "01e7e801e7eb01e7ed01e7ee01e7f001e7fe01e80001e8c401e8c701e8cf01e90001e943"
        \o "01e94b01e94b01e95001e95901ec7101ecab01ecad01ecaf01ecb101ecb401ed0101ed2d"
        \o "01ed2f01ed3d01ee0001ee0301ee0501ee1f01ee2101ee2201ee2401ee2401ee2701ee27"
        \o "01ee2901ee3201ee3401ee3701ee3901ee3901ee3b01ee3b01ee4201ee4201ee4701ee47"
        \o "01ee4901ee4901ee4b01ee4b01ee4d01ee4f01ee5101ee5201ee5401ee5401ee5701ee57"
        \o "01ee5901ee5901ee5b01ee5b01ee5d01ee5d01ee5f01ee5f01ee6101ee6201ee6401ee64"
        \o "01ee6701ee6a01ee6c01ee7201ee7401ee7701ee7901ee7c01ee7e01ee7e01ee8001ee89"
        \o "01ee8b01ee9b01eea101eea301eea501eea901eeab01eebb01f10001f10c01fbf001fbf9"
        \o "02000002a6df02a70002b73802b74002b81d02b82002cea102ceb002ebe002f80002fa1d"
        \o "03000003134a")

\* the ranges of the code points str.isprintable() is false for
NonPrintable ==
    Ranges(2,
        "00000000001f00007f0000a00000ad0000ad00037800037900038000038300038b00038b"
        \o "00038d00038d0003a20003a200053000053000055700055800058b00058c000590000590"
        \o "0005c80005cf0005eb0005ee0005f500060500061c00061c0006dd0006dd00070e00070f"
        \o "00074b00074c0007b20007bf0007fb0007fc00082e00082f00083f00083f00085c00085d"
        \o "00085f00085f00086b00086f00088f0008970008e20008e200098400098400098d00098e"
        \o "0009910009920009a90009a90009b10009b10009b30009b50009ba0009bb0009c50009c6"
        \o "0009c90009ca0009cf0009d60009d80009db0009de0009de0009e40009e50009ff000a00"
        \o "000a04000a04000a0b000a0e000a11000a12000a29000a29000a31000a31000a34000a34"
        \o "000a37000a37000a3a000a3b000a3d000a3d000a43000a46000a49000a4a000a4e000a50"
        \o "000a52000a58000a5d000a5d000a5f000a65000a77000a80000a84000a84000a8e000a8e"
        \o "000a92000a92000aa9000aa9000ab1000ab1000ab4000ab4000aba000abb000ac6000ac6"
        \o "000aca000aca000ace000acf000ad1000adf000ae4000ae5000af2000af8000b00000b00"
        \o "000b04000b04000b0d000b0e000b11000b12000b29000b29000b31000b31000b34000b34"
        \o "000b3a000b3b000b45000b46000b49000b4a000b4e000b54000b58000b5b000b5e000b5e"
        \o "000b64000b65000b78000b81000b84000b84000b8b000b8d000b91000b91000b96000b98"
        \o "000b9b000b9b000b9d000b9d000ba0000ba2000ba5000ba7000bab000bad000bba000bbd"
        \o "000bc3000bc5000bc9000bc9000bce000bcf000bd1000bd6000bd8000be5000bfb000bff"
        \o "000c0d000c0d000c11000c11000c29000c29000c3a000c3b000c45000c45000c49000c49"
        \o "000c4e000c54000c57000c57000c5b000c5c000c5e000c5f000c64000c65000c70000c76"
        \o "000c8d000c8d000c91000c91000ca9000ca9000cb4000cb4000cba000cbb000cc5000cc5"
        \o "000cc9000cc9000cce000cd4000cd7000cdc000cdf000cdf000ce4000ce5000cf0000cf0"
        \o "000cf3000cff000d0d000d0d000d11000d11000d45000d45000d49000d49000d50000d53"
        \o "000d64000d65000d80000d80000d84000d84000d97000d99000db2000db2000dbc000dbc"
        \o "000dbe000dbf000dc7000dc9000dcb000dce000dd5000dd5000dd7000dd7000de0000de5"
        \o "000df0000df1000df5000e00000e3b000e3e000e5c000e80000e83000e83000e85000e85"
        \o "000e8b000e8b000ea4000ea4000ea6000ea6000ebe000ebf000ec5000ec5000ec7000ec7"
        \o "000ece000ecf000eda000edb000ee0000eff000f48000f48000f6d000f70000f98000f98"
        \o "000fbd000fbd000fcd000fcd000fdb000fff0010c60010c60010c80010cc0010ce0010cf"
        \o "00124900124900124e00124f00125700125700125900125900125e00125f001289001289"
        \o "00128e00128f0012b10012b10012b60012b70012bf0012bf0012c10012c10012c60012c7"
        \o "0012d70012d700131100131100131600131700135b00135c00137d00137f00139a00139f"
        \o "0013f60013f70013fe0013ff00168000168000169d00169f0016f90016ff00171600171e"
        \o "00173700173f00175400175f00176d00176d00177100177100177400177f0017de0017df"
        \o "0017ea0017ef0017fa0017ff00180e00180e00181a00181f00187900187f0018ab0018af"
        \o "0018f60018ff00191f00191f00192c00192f00193c00193f00194100194300196e00196f"
        \o "00197500197f0019ac0019af0019ca0019cf0019db0019dd001a1c001a1d001a5f001a5f"
        \o "001a7d001a7e001a8a001a8f001a9a001a9f001aae001aaf001acf001aff001b4d001b4f"
        \o "001b7f001b7f001bf4001bfb001c38001c3a001c4a001c4c001c89001c8f001cbb001cbc"
        \o "001cc8001ccf001cfb001cff001f16001f17001f1e001f1f001f46001f47001f4e001f4f"
        \o "001f58001f58001f5a001f5a001f5c001f5c001f5e001f5e001f7e001f7f001fb5001fb5"
        \o "001fc5001fc5001fd4001fd5001fdc001fdc001ff0001ff1001ff5001ff5001fff00200f"
        \o "00202800202f00205f00206f00207200207300208f00208f00209d00209f0020c10020cf"
        \o "0020f10020ff00218c00218f00242700243f00244b00245f002b74002b75002b96002b96"
        \o "002cf4002cf8002d26002d26002d28002d2c002d2e002d2f002d68002d6e002d71002d7e"
        \o "002d97002d9f002da7002da7002daf002daf002db7002db7002dbf002dbf002dc7002dc7"
        \o "002dcf002dcf002dd7002dd7002ddf002ddf002e5e002e7f002e9a002e9a002ef4002eff"
        \o "002fd6002fef002ffc003000003040003040003097003098003100003104003130003130"
        \o "00318f00318f0031e40031ef00321f00321f00a48d00a48f00a4c700a4cf00a62c00a63f"
        \o "00a6f800a6ff00a7cb00a7cf00a7d200a7d200a7d400a7d400a7da00a7f100a82d00a82f"
        \o "00a83a00a83f00a87800a87f00a8c600a8cd00a8da00a8df00a95400a95e00a97d00a97f"
        \o "00a9ce00a9ce00a9da00a9dd00a9ff00a9ff00aa3700aa3f00aa4e00aa4f00aa5a00aa5b"
        \o "00aac300aada00aaf700ab0000ab0700ab0800ab0f00ab1000ab1700ab1f00ab2700ab27"
        \o "00ab2f00ab2f00ab6c00ab6f00abee00abef00abfa00abff00d7a400d7af00d7c700d7ca"
        \o "00d7fc00f8ff00fa6e00fa6f00fada00faff00fb0700fb1200fb1800fb1c00fb3700fb37"
        \o "00fb3d00fb3d00fb3f00fb3f00fb4200fb4200fb4500fb4500fbc300fbd200fd9000fd91"
        \o "00fdc800fdce00fdd000fdef00fe1a00fe1f00fe5300fe5300fe6700fe6700fe6c00fe6f"
        \o "00fe7500fe7500fefd00ff0000ffbf00ffc100ffc800ffc900ffd000ffd100ffd800ffd9"
        \o "00ffdd00ffdf00ffe700ffe700ffef00fffb00fffe00ffff01000c01000c010027010027"
        \o "01003b01003b01003e01003e01004e01004f01005e01007f0100fb0100ff010103010106"
        \o "01013401013601018f01018f01019d01019f0101a10101cf0101fe01027f01029d01029f"
        \o "0102d10102df0102fc0102ff01032401032c01034b01034f01037b01037f01039e01039e"
        \o "0103c40103c70103d60103ff01049e01049f0104aa0104af0104d40104d70104fc0104ff"
        \o "01052801052f01056401056e01057b01057b01058b01058b010593010593010596010596"
        \o "0105a20105a20105b20105b20105ba0105ba0105bd0105ff01073701073f01075601075f"
        \o "01076801077f0107860107860107b10107b10107bb0107ff010806010807010809010809"
        \o "01083601083601083901083b01083d01083e01085601085601089f0108a60108b00108df"
        \o "0108f30108f30108f60108fa01091c01091e01093a01093e01094001097f0109b80109bb"
        \o "0109d00109d1010a04010a04010a07010a0b010a14010a14010a18010a18010a36010a37"
        \o "010a3b010a3e010a49010a4f010a59010a5f010aa0010abf010ae7010aea010af7010aff"
        \o "010b36010b38010b56010b57010b73010b77010b92010b98010b9d010ba8010bb0010bff"
        \o "010c49010c7f010cb3010cbf010cf3010cf9010d28010d2f010d3a010e5f010e7f010e7f"
        \o "010eaa010eaa010eae010eaf010eb2010eff010f28010f2f010f5a010f6f010f8a010faf"
        \o "010fcc010fdf010ff7010fff01104e01105101107601107e0110bd0110bd0110c30110cf"
        \o "0110e90110ef0110fa0110ff01113501113501114801114f01117701117f0111e00111e0"
        \o "0111f50111ff01121201121201123f01127f01128701128701128901128901128e01128e"
        \o "01129e01129e0112aa0112af0112eb0112ef0112fa0112ff01130401130401130d01130e"
        \o "01131101131201132901132901133101133101133401133401133a01133a011345011346"
        \o "01134901134a01134e01134f01135101135601135801135c01136401136501136d01136f"
        \o "0113750113ff01145c01145c01146201147f0114c80114cf0114da01157f0115b60115b7"
        \o "0115de0115ff01164501164f01165a01165f01166d01167f0116ba0116bf0116ca0116ff"
        \o "01171b01171c01172c01172f0117470117ff01183c01189f0118f30118fe011907011908"
        \o "01190a01190b01191401191401191701191701193601193601193901193a01194701194f"
        \o "01195a01199f0119a80119a90119d80119d90119e50119ff011a48011a4f011aa3011aaf"
        \o "011af9011bff011c09011c09011c37011c37011c46011c4f011c6d011c6f011c90011c91"
        \o "011ca8011ca8011cb7011cff011d07011d07011d0a011d0a011d37011d39011d3b011d3b"
        \o "011d3e011d3e011d48011d4f011d5a011d5f011d66011d66011d69011d69011d8f011d8f"
        \o "011d92011d92011d99011d9f011daa011edf011ef9011faf011fb1011fbf011ff2011ffe"
        \o "01239a0123ff01246f01246f01247501247f012544012f8f012ff3012fff01342f0143ff"
        \o "0146470167ff016a39016a3f016a5f016a5f016a6a016a6d016abf016abf016aca016acf"
        \o "016aee016aef016af6016aff016b46016b4f016b5a016b5a016b62016b62016b78016b7c"
        \o "016b90016e3f016e9b016eff016f4b016f4e016f88016f8e016fa0016fdf016fe5016fef"
        \o "016ff2016fff0187f80187ff018cd6018cff018d0901afef01aff401aff401affc01affc"
        \o "01afff01afff01b12301b14f01b15301b16301b16801b16f01b2fc01bbff01bc6b01bc6f"
        \o "01bc7d01bc7f01bc8901bc8f01bc9a01bc9b01bca001ceff01cf2e01cf2f01cf4701cf4f"
        \o "01cfc401cfff01d0f601d0ff01d12701d12801d17301d17a01d1eb01d1ff01d24601d2df"
        \o "01d2f401d2ff01d35701d35f01d37901d3ff01d45501d45501d49d01d49d01d4a001d4a1"
        \o "01d4a301d4a401d4a701d4a801d4ad01d4ad01d4ba01d4ba01d4bc01d4bc01d4c401d4c4"
        \o "01d50601d50601d50b01d50c01d51501d51501d51d01d51d01d53a01d53a01d53f01d53f"
        \o "01d54501d54501d54701d54901d55101d55101d6a601d6a701d7cc01d7cd01da8c01da9a"
        \o "01daa001daa001dab001deff01df1f01dfff01e00701e00701e01901e01a01e02201e022"
        \o "01e02501e02501e02b01e0ff01e12d01e12f01e13e01e13f01e14a01e14d01e15001e28f"
        \o "01e2af01e2bf01e2fa01e2fe01e30001e7df01e7e701e7e701e7ec01e7ec01e7ef01e7ef"
        \o "01e7ff01e7ff01e8c501e8c601e8d701e8ff01e94c01e94f01e95a01e95d01e96001ec70"
        \o "01ecb501ed0001ed3e01edff01ee0401ee0401ee2001ee2001ee2301ee2301ee2501ee26"
        \o "01ee2801ee2801ee3301ee3301ee3801ee3801ee3a01ee3a01ee3c01ee4101ee4301ee46"
        \o "01ee4801ee4801ee4a01ee4a01ee4c01ee4c01ee5001ee5001ee5301ee5301ee5501ee56"
        \o "01ee5801ee5801ee5a01ee5a01ee5c01ee5c01ee5e01ee5e01ee6001ee6001ee6301ee63"
        \o "01ee6501ee6601ee6b01ee6b01ee7301ee7301ee7801ee7801ee7d01ee7d01ee7f01ee7f"
        \o "01ee8a01ee8a01ee9c01eea001eea401eea401eeaa01eeaa01eebc01eeef01eef201efff"
        \o "01f02c01f02f01f09401f09f01f0af01f0b001f0c001f0c001f0d001f0d001f0f601f0ff"
        \o "01f1ae01f1e501f20301f20f01f23c01f23f01f24901f24f01f25201f25f01f26601f2ff"
        \o "01f6d801f6dc01f6ed01f6ef01f6fd01f6ff01f77401f77f01f7d901f7df01f7ec01f7ef"
        \o "01f7f101f7ff01f80c01f80f01f84801f84f01f85a01f85f01f88801f88f01f8ae01f8af"
        \o "01f8b201f8ff01fa5401fa5f01fa6e01fa6f01fa7501fa7701fa7d01fa7f01fa8701fa8f"
        \o "01faad01faaf01fabb01fabf01fac601facf01fada01fadf01fae801faef01faf701faff"
        \o "01fb9301fb9301fbcb01fbef01fbfa01ffff02a6e002a6ff02b73902b73f02b81e02b81f"
        \o "02cea202ceaf02ebe102f7ff02fa1e02ffff03134b0e00ff0e01f010ffff")

\* the ranges of the code points str.isdecimal() is true for, each a
\* multiple of ten long and starting at a digit zero
Decimal ==
    Ranges(2,
        "0000300000390006600006690006f00006f90007c00007c900096600096f0009e60009ef"
        \o "000a66000a6f000ae6000aef000b66000b6f000be6000bef000c66000c6f000ce6000cef"
        \o "000d66000d6f000de6000def000e50000e59000ed0000ed9000f20000f29001040001049"
        \o "0010900010990017e00017e900181000181900194600194f0019d00019d9001a80001a89"
        \o "001a90001a99001b50001b59001bb0001bb9001c40001c49001c50001c5900a62000a629"
        \o "00a8d000a8d900a90000a90900a9d000a9d900a9f000a9f900aa5000aa5900abf000abf9"
        \o "00ff1000ff190104a00104a9010d30010d3901106601106f0110f00110f901113601113f"
        \o "0111d00111d90112f00112f90114500114590114d00114d90116500116590116c00116c9"
        \o "0117300117390118e00118e9011950011959011c50011c59011d50011d59011da0011da9"
        \o "016a60016a69016ac0016ac9016b50016b5901d7ce01d7ff01e14001e14901e2f001e2f9"
        \o "01e95001e95901fbf001fbf9")

\* str.lower() of one character: every `step`th code point from `first` to
\* `last` moves as `first` moves to `lower`, as <<first, last, step, lower>>;
\* U+0130 and U+03A3 are apart
Lowered ==
    Ranges(4,
        "00004100005a0000010000610000c00000d60000010000e00000d80000de0000010000f8"
        \o "00010000012e00000200010100013200013600000200013300013900014700000200013a"
        \o "00014a00017600000200014b0001780001780000010000ff00017900017d00000200017a"
        \o "000181000181000001000253000182000184000002000183000186000186000001000254"
        \o "00018700018700000100018800018900018a00000100025600018b00018b00000100018c"
        \o "00018e00018e0000010001dd00018f00018f00000100025900019000019000000100025b"
        \o "000191000191000001000192000193000193000001000260000194000194000001000263"
        \o "000196000196000001000269000197000197000001000268000198000198000001000199"
        \o "00019c00019c00000100026f00019d00019d00000100027200019f00019f000001000275"
        \o "0001a00001a40000020001a10001a60001a60000010002800001a70001a70000010001a8"
        \o "0001a90001a90000010002830001ac0001ac0000010001ad0001ae0001ae000001000288"
        \o "0001af0001af0000010001b00001b10001b200000100028a0001b30001b50000020001b4"
        \o "0001b70001b70000010002920001b80001b80000010001b90001bc0001bc0000010001bd"
        \o "0001c40001c40000010001c60001c50001c50000010001c60001c70001c70000010001c9"
        \o "0001c80001c80000010001c90001ca0001ca0000010001cc0001cb0001db0000020001cc"
        \o "0001de0001ee0000020001df0001f10001f10000010001f30001f20001f40000020001f3"
        \o "0001f60001f60000010001950001f70001f70000010001bf0001f800021e0000020001f9"
        \o "00022000022000000100019e00022200023200000200022300023a00023a000001002c65"
        \o "00023b00023b00000100023c00023d00023d00000100019a00023e00023e000001002c66"
        \o "000241000241000001000242000243000243000001000180000244000244000001000289"
        \o "00024500024500000100028c00024600024e000002000247000370000372000002000371"
        \o "00037600037600000100037700037f00037f0000010003f30003860003860000010003ac"
        \o "00038800038a0000010003ad00038c00038c0000010003cc00038e00038f0000010003cd"
        \o "0003910003a10000010003b10003a40003ab0000010003c40003cf0003cf0000010003d7"
        \o "0003d80003ee0000020003d90003f40003f40000010003b80003f70003f70000010003f8"
        \o "0003f90003f90000010003f20003fa0003fa0000010003fb0003fd0003ff00000100037b"
        \o "00040000040f00000100045000041000042f000001000430000460000480000002000461"
        \o "00048a0004be00000200048b0004c00004c00000010004cf0004c10004cd0000020004c2"
        \o "0004d000052e0000020004d10005310005560000010005610010a00010c5000001002d00"
        \o "0010c70010c7000001002d270010cd0010cd000001002d2d0013a00013ef00000100ab70"
        \o "0013f00013f50000010013f8001c90001cba0000010010d0001cbd001cbf0000010010fd"
        \o "001e00001e94000002001e01001e9e001e9e0000010000df001ea0001efe000002001ea1"
        \o "001f08001f0f000001001f00001f18001f1d000001001f10001f28001f2f000001001f20"
        \o "001f38001f3f000001001f30001f48001f4d000001001f40001f59001f5f000002001f51"
        \o "001f68001f6f000001001f60001f88001f8f000001001f80001f98001f9f000001001f90"
        \o "001fa8001faf000001001fa0001fb8001fb9000001001fb0001fba001fbb000001001f70"
        \o "001fbc001fbc000001001fb3001fc8001fcb000001001f72001fcc001fcc000001001fc3"
        \o "001fd8001fd9000001001fd0001fda001fdb000001001f76001fe8001fe9000001001fe0"
        \o "001fea001feb000001001f7a001fec001fec000001001fe5001ff8001ff9000001001f78"
        \o "001ffa001ffb000001001f7c001ffc001ffc000001001ff30021260021260000010003c9"
        \o "00212a00212a00000100006b00212b00212b0000010000e500213200213200000100214e"
        \o "00216000216f0000010021700021830021830000010021840024b60024cf0000010024d0"
        \o "002c00002c2f000001002c30002c60002c60000001002c61002c62002c6200000100026b"
        \o "002c63002c63000001001d7d002c64002c6400000100027d002c67002c6b000002002c68"
        \o "002c6d002c6d000001000251002c6e002c6e000001000271002c6f002c6f000001000250"
        \o "002c70002c70000001000252002c72002c72000001002c73002c75002c75000001002c76"
        \o "002c7e002c7f00000100023f002c80002ce2000002002c81002ceb002ced000002002cec"
        \o "002cf2002cf2000001002cf300a64000a66c00000200a64100a68000a69a00000200a681"
        \o "00a72200a72e00000200a72300a73200a76e00000200a73300a77900a77b00000200a77a"
        \o "00a77d00a77d000001001d7900a77e00a78600000200a77f00a78b00a78b00000100a78c"
        \o "00a78d00a78d00000100026500a79000a79200000200a79100a79600a7a800000200a797"
        \o "00a7aa00a7aa00000100026600a7ab00a7ab00000100025c00a7ac00a7ac000001000261"
        \o "00a7ad00a7ad00000100026c00a7ae00a7ae00000100026a00a7b000a7b000000100029e"
        \o "00a7b100a7b100000100028700a7b200a7b200000100029d00a7b300a7b300000100ab53"
        \o "00a7b400a7c200000200a7b500a7c400a7c400000100a79400a7c500a7c5000001000282"
        \o "00a7c600a7c6000001001d8e00a7c700a7c900000200a7c800a7d000a7d000000100a7d1"
        \o "00a7d600a7d800000200a7d700a7f500a7f500000100a7f600ff2100ff3a00000100ff41"
        \o "0104000104270000010104280104b00104d30000010104d801057001057a000001010597"
        \o "01057c01058a0000010105a301058c0105920000010105b30105940105950000010105bb"
        \o "010c80010cb2000001010cc00118a00118bf0000010118c0016e40016e5f000001016e60"
        \o "01e90001e92100000101e922")

\* the ranges of the code points that are cased and not case-ignorable
Cased ==
    Ranges(2,
        "00004100005a00006100007a0000aa0000aa0000b50000b50000ba0000ba0000c00000d6"
        \o "0000d80000f60000f80001ba0001bc0001bf0001c40002930002950002af000370000373"
        \o "00037600037700037b00037d00037f00037f00038600038600038800038a00038c00038c"
        \o "00038e0003a10003a30003f50003f700048100048a00052f000531000556000560000588"
        \o "0010a00010c50010c70010c70010cd0010cd0010d00010fa0010fd0010ff0013a00013f5"
        \o "0013f80013fd001c80001c88001c90001cba001cbd001cbf001d00001d2b001d6b001d77"
        \o "001d79001d9a001e00001f15001f18001f1d001f20001f45001f48001f4d001f50001f57"
        \o "001f59001f59001f5b001f5b001f5d001f5d001f5f001f7d001f80001fb4001fb6001fbc"
        \o "001fbe001fbe001fc2001fc4001fc6001fcc001fd0001fd3001fd6001fdb001fe0001fec"
        \o "001ff2001ff4001ff6001ffc00210200210200210700210700210a002113002115002115"
        \o "00211900211d00212400212400212600212600212800212800212a00212d00212f002134"
        \o "00213900213900213c00213f00214500214900214e00214e00216000217f002183002184"
        \o "0024b60024e9002c00002c7b002c7e002ce4002ceb002cee002cf2002cf3002d00002d25"
        \o "002d27002d27002d2d002d2d00a64000a66d00a68000a69b00a72200a76f00a77100a787"
        \o "00a78b00a78e00a79000a7ca00a7d000a7d100a7d300a7d300a7d500a7d900a7f500a7f6"
        \o "00a7fa00a7fa00ab3000ab5a00ab6000ab6800ab7000abbf00fb0000fb0600fb1300fb17"
        \o "00ff2100ff3a00ff4100ff5a01040001044f0104b00104d30104d80104fb01057001057a"
        \o "01057c01058a01058c0105920105940105950105970105a10105a30105b10105b30105b9"
        \o "0105bb0105bc010c80010cb2010cc0010cf20118a00118df016e40016e7f01d40001d454"
        \o "01d45601d49c01d49e01d49f01d4a201d4a201d4a501d4a601d4a901d4ac01d4ae01d4b9"
        \o "01d4bb01d4bb01d4bd01d4c301d4c501d50501d50701d50a01d50d01d51401d51601d51c"
        \o "01d51e01d53901d53b01d53e01d54001d54401d54601d54601d54a01d55001d55201d6a5"
        \o "01d6a801d6c001d6c201d6da01d6dc01d6fa01d6fc01d71401d71601d73401d73601d74e"
        \o "01d75001d76e01d77001d78801d78a01d7a801d7aa01d7c201d7c401d7cb01df0001df09"
        \o "01df0b01df1e01e90001e94301f13001f14901f15001f16901f17001f189")

\* the ranges of the case-ignorable code points
CaseIgnorable ==
    Ranges(2,
        "00002700002700002e00002e00003a00003a00005e00005e0000600000600000a80000a8"
        \o "0000ad0000ad0000af0000af0000b40000b40000b70000b80002b000036f000374000375"
        \o "00037a00037a00038400038500038700038700048300048900055900055900055f00055f"
        \o "0005910005bd0005bf0005bf0005c10005c20005c40005c50005c70005c70005f40005f4"
        \o "00060000060500061000061a00061c00061c00064000064000064b00065f000670000670"
        \o "0006d60006dd0006df0006e80006ea0006ed00070f00070f00071100071100073000074a"
        \o "0007a60007b00007eb0007f50007fa0007fa0007fd0007fd00081600082d00085900085b"
        \o "00088800088800089000089100089800089f0008c900090200093a00093a00093c00093c"
        \o "00094100094800094d00094d000951000957000962000963000971000971000981000981"
        \o "0009bc0009bc0009c10009c40009cd0009cd0009e20009e30009fe0009fe000a01000a02"
        \o "000a3c000a3c000a41000a42000a47000a48000a4b000a4d000a51000a51000a70000a71"
        \o "000a75000a75000a81000a82000abc000abc000ac1000ac5000ac7000ac8000acd000acd"
        \o "000ae2000ae3000afa000aff000b01000b01000b3c000b3c000b3f000b3f000b41000b44"
        \o "000b4d000b4d000b55000b56000b62000b63000b82000b82000bc0000bc0000bcd000bcd"
        \o "000c00000c00000c04000c04000c3c000c3c000c3e000c40000c46000c48000c4a000c4d"
        \o "000c55000c56000c62000c63000c81000c81000cbc000cbc000cbf000cbf000cc6000cc6"
        \o "000ccc000ccd000ce2000ce3000d00000d01000d3b000d3c000d41000d44000d4d000d4d"
        \o "000d62000d63000d81000d81000dca000dca000dd2000dd4000dd6000dd6000e31000e31"
        \o "000e34000e3a000e46000e4e000eb1000eb1000eb4000ebc000ec6000ec6000ec8000ecd"
        \o "000f18000f19000f35000f35000f37000f37000f39000f39000f71000f7e000f80000f84"
        \o "000f86000f87000f8d000f97000f99000fbc000fc6000fc600102d001030001032001037"
        \o "00103900103a00103d00103e00105800105900105e001060001071001074001082001082"
        \o "00108500108600108d00108d00109d00109d0010fc0010fc00135d00135f001712001714"
        \o "0017320017330017520017530017720017730017b40017b50017b70017bd0017c60017c6"
        \o "0017c90017d30017d70017d70017dd0017dd00180b00180f001843001843001885001886"
        \o "0018a90018a900192000192200192700192800193200193200193900193b001a17001a18"
        \o "001a1b001a1b001a56001a56001a58001a5e001a60001a60001a62001a62001a65001a6c"
        \o "001a73001a7c001a7f001a7f001aa7001aa7001ab0001ace001b00001b03001b34001b34"
        \o "001b36001b3a001b3c001b3c001b42001b42001b6b001b73001b80001b81001ba2001ba5"
        \o "001ba8001ba9001bab001bad001be6001be6001be8001be9001bed001bed001bef001bf1"
        \o "001c2c001c33001c36001c37001c78001c7d001cd0001cd2001cd4001ce0001ce2001ce8"
        \o "001ced001ced001cf4001cf4001cf8001cf9001d2c001d6a001d78001d78001d9b001dff"
        \o "001fbd001fbd001fbf001fc1001fcd001fcf001fdd001fdf001fed001fef001ffd001ffe"
        \o "00200b00200f00201800201900202400202400202700202700202a00202e002060002064"
        \o "00206600206f00207100207100207f00207f00209000209c0020d00020f0002c7c002c7d"
        \o "002cef002cf1002d6f002d6f002d7f002d7f002de0002dff002e2f002e2f003005003005"
        \o "00302a00302d00303100303500303b00303b00309900309e0030fc0030fe00a01500a015"
        \o "00a4f800a4fd00a60c00a60c00a66f00a67200a67400a67d00a67f00a67f00a69c00a69f"
        \o "00a6f000a6f100a70000a72100a77000a77000a78800a78a00a7f200a7f400a7f800a7f9"
        \o "00a80200a80200a80600a80600a80b00a80b00a82500a82600a82c00a82c00a8c400a8c5"
        \o "00a8e000a8f100a8ff00a8ff00a92600a92d00a94700a95100a98000a98200a9b300a9b3"
        \o "00a9b600a9b900a9bc00a9bd00a9cf00a9cf00a9e500a9e600aa2900aa2e00aa3100aa32"
        \o "00aa3500aa3600aa4300aa4300aa4c00aa4c00aa7000aa7000aa7c00aa7c00aab000aab0"
        \o "00aab200aab400aab700aab800aabe00aabf00aac100aac100aadd00aadd00aaec00aaed"
        \o "00aaf300aaf400aaf600aaf600ab5b00ab5f00ab6900ab6b00abe500abe500abe800abe8"
        \o "00abed00abed00fb1e00fb1e00fbb200fbc200fe0000fe0f00fe1300fe1300fe2000fe2f"
        \o "00fe5200fe5200fe5500fe5500feff00feff00ff0700ff0700ff0e00ff0e00ff1a00ff1a"
        \o "00ff3e00ff3e00ff4000ff4000ff7000ff7000ff9e00ff9f00ffe300ffe300fff900fffb"
        \o "0101fd0101fd0102e00102e001037601037a0107800107850107870107b00107b20107ba"
        \o "010a01010a03010a05010a06010a0c010a0f010a38010a3a010a3f010a3f010ae5010ae6"
        \o "010d24010d27010eab010eac010f46010f50010f82010f85011001011001011038011046"
        \o "01107001107001107301107401107f0110810110b30110b60110b90110ba0110bd0110bd"
        \o "0110c20110c20110cd0110cd01110001110201112701112b01112d011134011173011173"
        \o "0111800111810111b60111be0111c90111cc0111cf0111cf01122f011231011234011234"
        \o "01123601123701123e01123e0112df0112df0112e30112ea01130001130101133b01133c"
        \o "01134001134001136601136c01137001137401143801143f011442011444011446011446"
        \o "01145e01145e0114b30114b80114ba0114ba0114bf0114c00114c20114c30115b20115b5"
        \o "0115bc0115bd0115bf0115c00115dc0115dd01163301163a01163d01163d01163f011640"
        \o "0116ab0116ab0116ad0116ad0116b00116b50116b70116b701171d01171f011722011725"
        \o "01172701172b01182f01183701183901183a01193b01193c01193e01193e011943011943"
        \o "0119d40119d70119da0119db0119e00119e0011a01011a0a011a33011a38011a3b011a3e"
        \o "011a47011a47011a51011a56011a59011a5b011a8a011a96011a98011a99011c30011c36"
        \o "011c38011c3d011c3f011c3f011c92011ca7011caa011cb0011cb2011cb3011cb5011cb6"
        \o "011d31011d36011d3a011d3a011d3c011d3d011d3f011d45011d47011d47011d90011d91"
        \o "011d95011d95011d97011d97011ef3011ef4013430013438016af0016af4016b30016b36"
        \o "016b40016b43016f4f016f4f016f8f016f9f016fe0016fe1016fe3016fe401aff001aff3"
        \o "01aff501affb01affd01affe01bc9d01bc9e01bca001bca301cf0001cf2d01cf3001cf46"
        \o "01d16701d16901d17301d18201d18501d18b01d1aa01d1ad01d24201d24401da0001da36"
        \o "01da3b01da6c01da7501da7501da8401da8401da9b01da9f01daa101daaf01e00001e006"
        \o "01e00801e01801e01b01e02101e02301e02401e02601e02a01e13001e13d01e2ae01e2ae"
        \o "01e2ec01e2ef01e8d001e8d601e94401e94b01f3fb01f3ff0e00010e00010e00200e007f"
        \o "0e01000e01ef")

\* the characters str.strip() removes, those str.isspace() is true for.
\* The ones this notation has no escape for are atoms with their Python
\* escapes as names.
Whitespace ==
    {" ", "\t", "\n", "\r", "\f",
     "\\x0b", "\\x1c", "\\x1d", "\\x1e", "\\x1f", "\\x85", "\\xa0",
     "\\u1680", "\\u2000", "\\u2001", "\\u2002", "\\u2003", "\\u2004",
     "\\u2005", "\\u2006", "\\u2007", "\\u2008", "\\u2009", "\\u200a",
     "\\u2028", "\\u2029", "\\u202f", "\\u205f", "\\u3000"}

Drop(s, n) == SubSeq(s, n + 1, Len(s))

StartsWith(s, p) == Len(p) <= Len(s) /\ SubSeq(s, 1, Len(p)) = p

EndsWith(s, p) ==
    Len(p) <= Len(s) /\ SubSeq(s, Len(s) - Len(p) + 1, Len(s)) = p

RECURSIVE LStrip(_, _)
LStrip(s, chars) ==
    IF s # <<>> /\ Head(s) \in chars THEN LStrip(Tail(s), chars) ELSE s

RECURSIVE RStrip(_, _)
RStrip(s, chars) ==
    IF s # <<>> /\ s[Len(s)] \in chars
    THEN RStrip(SubSeq(s, 1, Len(s) - 1), chars)
    ELSE s

Stripped(s, chars) == RStrip(LStrip(s, chars), chars)

Strip(s) == Stripped(s, Whitespace)

\* str.isalnum() of a character
isalnum(c) == RangeOf(ord(c), Alphanumeric) # 0

\* \w of a regular expression over str: alphanumeric, or the underscore
WordChar(c) == c = "_" \/ isalnum(c)

\* str.isprintable() of a character
isprintable(c) == RangeOf(ord(c), NonPrintable) = 0

\* str.isdecimal() of a character, and the digit it stands for
isdecimal(c) == RangeOf(ord(c), Decimal) # 0

DecimalOf(n, range) == (n - range[1]) % 10

DecimalPoint(n) == DecimalOf(n, Decimal[RangeOf(n, Decimal)])

DecimalValue(c) == DecimalPoint(ord(c))

\* the position of the nearest code point before ns[i + 1] that is not
\* case-ignorable, 0 for none
RECURSIVE CasedBefore(_, _)
CasedBefore(ns, i) ==
    IF i = 0 \/ RangeOf(ns[i], CaseIgnorable) = 0 THEN i
    ELSE CasedBefore(ns, i - 1)

\* the position of the nearest code point from ns[i] on that is not
\* case-ignorable, Len(ns) + 1 for none
RECURSIVE CasedAfter(_, _)
CasedAfter(ns, i) ==
    IF i > Len(ns) \/ RangeOf(ns[i], CaseIgnorable) = 0 THEN i
    ELSE CasedAfter(ns, i + 1)

\* ns[i] is a cased letter, for i from 0 to Len(ns) + 1
CasedAt(ns, i) == i > 0 /\ i <= Len(ns) /\ RangeOf(ns[i], Cased) # 0

\* U+03A3 at ns[i] is a final sigma: after a cased letter and not before
\* one, case-ignorable characters aside
final_sigma(ns, i) ==
    CasedAt(ns, CasedBefore(ns, i - 1)) /\ ~CasedAt(ns, CasedAfter(ns, i + 1))

\* the code point n moved as its run <<first, last, step, lower>> says
LowerIn(n, row) ==
    IF (n - row[1]) % row[3] = 0 THEN n + row[4] - row[1] ELSE n

\* the same for the k-th run of the table, 0 for no run
LowerRun(n, k) == IF k = 0 THEN n ELSE LowerIn(n, Lowered[k])

\* the code points of the lower case of the code point n
LowerPoint(n) ==
    IF n = 304 THEN <<105, 775>> ELSE <<LowerRun(n, RangeOf(n, Lowered))>>

\* the lower case of the code point ns[i] of ns
LowerAt(ns, i) ==
    IF ns[i] = 931 THEN <<IF final_sigma(ns, i) THEN 962 ELSE 963>>
    ELSE LowerPoint(ns[i])

RECURSIVE LowerFrom(_, _)
LowerFrom(ns, i) ==
    IF i > Len(ns) THEN <<>> ELSE LowerAt(ns, i) \o LowerFrom(ns, i + 1)

\* str.lower()
lower(s) == Chrs(LowerFrom(Ords(s), 1))

\* a < b for strings, by code points
RECURSIVE PointsLess(_, _)
PointsLess(a, b) ==
    IF b = <<>> THEN FALSE
    ELSE IF a = <<>> THEN TRUE
    ELSE IF Head(a) = Head(b) THEN PointsLess(Tail(a), Tail(b))
    ELSE Head(a) < Head(b)

Less(points) == PointsLess(points[1], points[2])

StrLess(a, b) == Less([i \in 1..2 |-> Ords(IF i = 1 THEN a ELSE b)])

\* the characters int() and float() skip around a numeral: those of
\* str.isspace() but the four separators U+001C to U+001F
NumeralSpace == Whitespace \ {"\\x1c", "\\x1d", "\\x1e", "\\x1f"}

\* sep.join(parts)
RECURSIVE Join(_, _)
Join(parts, sep) ==
    IF parts = <<>> THEN <<>>
    ELSE IF Len(parts) = 1 THEN parts[1]
    ELSE parts[1] \o sep \o Join(Tail(parts), sep)

\* text.split(sep) for a one-character separator
RECURSIVE SplitAcc(_, _, _)
SplitAcc(text, sep, cur) ==
    IF text = <<>> THEN <<cur>>
    ELSE IF Head(text) = sep THEN <<cur>> \o SplitAcc(Tail(text), sep, <<>>)
    ELSE SplitAcc(Tail(text), sep, Append(cur, Head(text)))

Split(text, sep) == SplitAcc(text, sep, <<>>)

RECURSIVE CommonPrefix(_, _)
CommonPrefix(a, b) ==
    IF a # <<>> /\ b # <<>> /\ Head(a) = Head(b)
    THEN <<Head(a)>> \o CommonPrefix(Tail(a), Tail(b))
    ELSE <<>>

\* textwrap.dedent: lines of blanks and tabs become empty, then the longest
\* common leading run of blanks and tabs of the other lines is removed
Indent(line) == SubSeq(line, 1, Len(line) - Len(LStrip(line, {" ", "\t"})))

RECURSIVE Margin(_, _)
Margin(ls, margin) ==
    IF ls = <<>> THEN margin
    ELSE IF Head(ls) = <<>> THEN Margin(Tail(ls), margin)
    ELSE IF margin = None THEN Margin(Tail(ls), Some(Indent(Head(ls))))
    ELSE Margin(Tail(ls), Some(CommonPrefix(margin.some, Indent(Head(ls)))))

dedent(text) ==
    LET raw == Split(text, "\n")
        ls == [i \in 1..Len(raw) |->
                 IF LStrip(raw[i], {" ", "\t"}) = <<>> THEN <<>> ELSE raw[i]]
        margin == Margin(ls, None)
    IN  IF margin = None \/ margin.some = <<>> THEN Join(ls, <<"\n">>)
        ELSE Join([i \in 1..Len(ls) |->
                     IF StartsWith(ls[i], margin.some)
                     THEN Drop(ls[i], Len(margin.some)) ELSE ls[i]],
                  <<"\n">>)

-----------------------------------------------------------------------------
\* sublime.decode_value, the host's JSON decoder, on the comment-free text.
\* Decoded values carry their type: null, bool, int, float, str, list, dict.
\* A dict is kept as the mapping `v` with its keys in the order of their
\* insertion, `k`.  The decoder is strict JSON; it raises (ok = FALSE) on
\* anything else.

Fail == [ok |-> FALSE]

Digits == {"0", "1", "2", "3", "4", "5", "6", "7", "8", "9"}

DigitVal(c) ==
    CASE c = "0" -> 0 [] c = "1" -> 1 [] c = "2" -> 2 [] c = "3" -> 3
      [] c = "4" -> 4 [] c = "5" -> 5 [] c = "6" -> 6 [] c = "7" -> 7
      [] c = "8" -> 8 [] c = "9" -> 9

\* the whitespace of JSON
JsonWhitespace == {" ", "\t", "\n", "\r"}

RECURSIVE SkipWs(_, _)
SkipWs(t, i) ==
    IF i <= Len(t) /\ t[i] \in JsonWhitespace THEN SkipWs(t, i + 1) ELSE i

\* the value of a hexadecimal digit in either case, -1 for another character
HexCase ==
    <<"0", "1", "2", "3", "4", "5", "6", "7", "8", "9", "a", "b", "c", "d",
      "e", "f", "A", "B", "C", "D", "E", "F">>

HexAt(found) ==
    IF found = {} THEN -1
    ELSE IF (CHOOSE k \in found : TRUE) > 16 THEN (CHOOSE k \in found : TRUE) - 7
    ELSE (CHOOSE k \in found : TRUE) - 1

HexOf(c) == HexAt({k \in 1..22 : HexCase[k] = c})

\* the value of the four hexadecimal digits t[i..i+3] of an escape \uXXXX,
\* -1 when they are not four hexadecimal digits
Hex4Of(h) ==
    IF \A k \in 1..4 : h[k] >= 0
    THEN 4096 * h[1] + 256 * h[2] + 16 * h[3] + h[4]
    ELSE -1

Hex4(t, i) ==
    IF i + 3 <= Len(t) THEN Hex4Of([k \in 1..4 |-> HexOf(t[i + k - 1])]) ELSE -1

\* the value of the escape \uXXXX that follows the four digits at t[i], -1
\* when none does
NextHex4(t, i) ==
    IF i + 5 <= Len(t) /\ t[i + 4] = "\\" /\ t[i + 5] = "u" THEN Hex4(t, i + 6)
    ELSE -1

\* the code point of the escape of the value h and the length of its
\* digits and of what belongs to it: of the two of a surrogate pair, one
\* character
Unit(h, next) ==
    IF h >= 55296 /\ h <= 56319 /\ next >= 56320 /\ next <= 57343
    THEN [point |-> 65536 + 1024 * (h - 55296) + (next - 56320), len |-> 10]
    ELSE [point |-> h, len |-> 4]

\* the character a backslash and the letter c stand for
Escaped(c) ==
    CASE c = "b" -> "\\x08"
      [] c = "f" -> "\f"
      [] c = "n" -> "\n"
      [] c = "r" -> "\r"
      [] c = "t" -> "\t"
      [] OTHER -> c

\* t[i] is the first character after the opening quote
RECURSIVE ParseString(_, _, _)
ParseUnit(t, i, acc, unit) ==
    ParseString(t, i + unit.len, Append(acc, chr(unit.point)))

ParseEscape(t, i, acc) ==
    IF i > Len(t) THEN Fail
    ELSE IF t[i] \in {"\"", "\\", "/", "b", "f", "n", "r", "t"}
    THEN ParseString(t, i + 1, Append(acc, Escaped(t[i])))
    ELSE IF t[i] = "u" /\ Hex4(t, i + 1) >= 0
    THEN ParseUnit(t, i + 1, acc, Unit(Hex4(t, i + 1), NextHex4(t, i + 1)))
    ELSE Fail

ParseString(t, i, acc) ==
    IF i > Len(t) \/ ord(t[i]) < 32 THEN Fail
    ELSE IF t[i] = "\"" THEN [ok |-> TRUE, val |-> acc, pos |-> i + 1]
    ELSE IF t[i] = "\\" THEN ParseEscape(t, i + 1, acc)
    ELSE ParseString(t, i + 1, Append(acc, t[i]))

RECURSIVE ParseDigits(_, _, _)
ParseDigits(t, i, acc) ==
    IF i <= Len(t) /\ t[i] \in Digits
    THEN ParseDigits(t, i + 1, 10 * acc + DigitVal(t[i]))
    ELSE [ok |-> TRUE, val |-> acc, pos |-> i]

\* A float is kept as the decimal numeral repr() gives for it: a sign and
\* the value 0.d1...dk * 10^point, the digits d1...dk without leading and
\* trailing zeros (none for zero), or an infinity, or a NaN.  `id` tells
\* apart the NaN objects of different calls, which are equal to nothing but
\* themselves.
Finite(neg, ds, point) ==
    [kind |-> "finite", neg |-> neg, digits |-> ds, point |-> point, id |-> 0]

Zero(neg) == Finite(neg, <<>>, 0)

Infinity(neg) ==
    [kind |-> "inf", neg |-> neg, digits |-> <<>>, point |-> 0, id |-> 0]

NaN == [kind |-> "nan", neg |-> FALSE, digits |-> <<>>, point |-> 0, id |-> 0]

\* Natural numbers beyond the machine's integers, for the arithmetic of
\* floats: the digits of base 10000 from the lowest up, none for zero and
\* no zero at the top.
Base == 10000

\* a without the zeros at its top
BigTrim(a) ==
    SubSeq(a, 1, Len(a) - (CHOOSE k \in 0..Len(a) :
                             /\ k = Len(a) \/ a[Len(a) - k] # 0
                             /\ \A j \in 0..(k - 1) : a[Len(a) - j] = 0))

\* -1, 0 or 1 as a is less than, equal to or greater than b
BigSign(a, b, i) == IF a[i] < b[i] THEN -1 ELSE 1

BigCmp(a, b) ==
    IF Len(a) < Len(b) THEN -1
    ELSE IF Len(a) > Len(b) THEN 1
    ELSE IF a = b THEN 0
    ELSE BigSign(a, b, Len(a) - (CHOOSE k \in 0..(Len(a) - 1) :
                                   /\ a[Len(a) - k] # b[Len(a) - k]
                                   /\ \A j \in 0..(k - 1) :
                                          a[Len(a) - j] = b[Len(a) - j]))

BigDigit(a, i) == IF i <= Len(a) THEN a[i] ELSE 0

\* the carry out of the digit i of a + b
RECURSIVE Carry(_, _, _)
Carry(a, b, i) ==
    IF i = 0 THEN 0
    ELSE IF BigDigit(a, i) + BigDigit(b, i) >= Base THEN 1
    ELSE IF BigDigit(a, i) + BigDigit(b, i) = Base - 1 THEN Carry(a, b, i - 1)
    ELSE 0

\* a + b, of digits with or without zeros at the top
BigAdd(a, b) ==
    BigTrim([i \in 1..((IF Len(a) > Len(b) THEN Len(a) ELSE Len(b)) + 1) |->
               (BigDigit(a, i) + BigDigit(b, i) + Carry(a, b, i - 1)) % Base])

\* the borrow out of the digit i of a - b
RECURSIVE Borrow(_, _, _)
Borrow(a, b, i) ==
    IF i = 0 THEN 0
    ELSE IF a[i] < BigDigit(b, i) THEN 1
    ELSE IF a[i] = BigDigit(b, i) THEN Borrow(a, b, i - 1)
    ELSE 0

\* a - b, for a >= b
BigSub(a, b) ==
    BigTrim([i \in 1..Len(a) |->
               (a[i] - BigDigit(b, i) - Borrow(a, b, i - 1) + Base) % Base])

\* The operators of this arithmetic call each other through Float: Float(op, x)
\* is the operator named op applied to the arguments x.
RECURSIVE Float(_, _)

\* a * k, for 0 < k <= 2^17: the three digits of each product a[i] * k,
\* added up in their places
BigTimes(a, k) ==
    Float("BigAdd", <<Float("BigAdd", <<[i \in 1..Len(a) |-> (a[i] * k) % Base],
            <<0>> \o [i \in 1..Len(a) |-> ((a[i] * k) \div Base) % Base]>>),
        <<0, 0>> \o [i \in 1..Len(a) |-> (a[i] * k) \div (Base * Base)]>>)

\* a * 2^n
TimesPow2(a, n) ==
    IF a = <<>> THEN a
    ELSE IF n >= 17 THEN Float("TimesPow2", <<Float("BigTimes", <<a, 131072>>), n - 17>>)
    ELSE Float("BigTimes", <<a, 2 ^ n>>)

\* a * 10^n
TimesPow10(a, n) ==
    IF a = <<>> THEN a
    ELSE [i \in 1..(n \div 4) |-> 0] \o Float("BigTimes", <<a, 10 ^ (n % 4)>>)

\* the number of decimal digits of a
DecimalLen(a) ==
    IF a = <<>> THEN 0
    ELSE 4 * (Len(a) - 1)
         + (IF a[Len(a)] >= 1000 THEN 4 ELSE IF a[Len(a)] >= 100 THEN 3
            ELSE IF a[Len(a)] >= 10 THEN 2 ELSE 1)

\* the number written by the decimal digits ds
BigOfDigits(ds) ==
    BigTrim([i \in 1..((Len(ds) + 3) \div 4) |->
               LET p == Len(ds) - 4 * (i - 1)
               IN  DigitVal(ds[p])
                   + (IF p > 1 THEN 10 * DigitVal(ds[p - 1]) ELSE 0)
                   + (IF p > 2 THEN 100 * DigitVal(ds[p - 2]) ELSE 0)
                   + (IF p > 3 THEN 1000 * DigitVal(ds[p - 3]) ELSE 0)])

\* 2^52 and 2^53, the bounds of the significand of a double
TwoTo52 == <<496, 2737, 5996, 4503>>
TwoTo53 == <<992, 5474, 1992, 9007>>

\* the least exponent of a double's significand and the greatest
MinExponent == -1074
MaxExponent == 971

\* num / top * 2^53 * 2^e is the value; top is doubled until the quotient
\* num / top * 2^53 is below 2^53
ScaleDown(num, top, e) ==
    IF Float("BigCmp", <<num, Float("TimesPow2", <<top, 17>>)>>) >= 0
    THEN Float("ScaleDown", <<num, Float("TimesPow2", <<top, 17>>), e + 17>>)
    ELSE IF Float("BigCmp", <<num, top>>) >= 0
    THEN Float("ScaleDown", <<num, Float("BigTimes", <<top, 2>>), e + 1>>)
    ELSE [num |-> num, top |-> top, e |-> e]

\* num is doubled until the quotient is 2^52 or more, or the exponent is
\* the least one
ScaleUp(num, top, e) ==
    IF e - 17 >= MinExponent /\ Float("BigCmp", <<Float("TimesPow2", <<num, 17>>), top>>) < 0
    THEN Float("ScaleUp", <<Float("TimesPow2", <<num, 17>>), top, e - 17>>)
    ELSE IF e > MinExponent /\ Float("BigCmp", <<Float("BigTimes", <<num, 2>>), top>>) < 0
    THEN Float("ScaleUp", <<Float("BigTimes", <<num, 2>>), top, e - 1>>)
    ELSE [num |-> num, top |-> top, e |-> e]

\* the next n binary digits of d.r / top after those of d.q, and the rest
Divide(d, top, n) ==
    IF n = 0 THEN d
    ELSE IF Float("BigCmp", <<Float("BigTimes", <<d.r, 2>>), top>>) >= 0
    THEN Float("Divide", <<[q |-> Float("BigAdd", <<Float("BigTimes", <<d.q, 2>>), <<1>>>>),
                 r |-> Float("BigSub", <<Float("BigTimes", <<d.r, 2>>), top>>)], top, n - 1>>)
    ELSE Float("Divide", <<[q |-> Float("BigTimes", <<d.q, 2>>), r |-> Float("BigTimes", <<d.r, 2>>)], top, n - 1>>)

\* the quotient rounded to the nearest, to the even one of two
RoundHalfEven(d, top) ==
    IF \/ Float("BigCmp", <<Float("BigTimes", <<d.r, 2>>), top>>) > 0
       \/ Float("BigCmp", <<Float("BigTimes", <<d.r, 2>>), top>>) = 0 /\ d.q # <<>> /\ d.q[1] % 2 = 1
    THEN Float("BigAdd", <<d.q, <<1>>>>)
    ELSE d.q

\* the digits of r / s, r < s, from the first one on, up to the last one
\* that tells the double from its neighbours: the free-format algorithm of
\* Burger and Dybvig, with the last digit rounded to the even one of two
Quotient(r, s, d) ==
    IF Float("BigCmp", <<r, s>>) >= 0 THEN Float("Quotient", <<Float("BigSub", <<r, s>>), s, d + 1>>)
    ELSE [d |-> d, r |-> r]

GenerateDigit(d, s, mp, mm, even, acc, low, high) ==
    IF ~low /\ ~high
    THEN Float("Generate", <<Float("BigTimes", <<d.r, 10>>), s, Float("BigTimes", <<mp, 10>>), Float("BigTimes", <<mm, 10>>),
                  even, Append(acc, d.d)>>)
    ELSE IF ~low THEN Append(acc, d.d + 1)
    ELSE IF ~high THEN Append(acc, d.d)
    ELSE IF Float("BigCmp", <<Float("BigTimes", <<d.r, 2>>), s>>) < 0 THEN Append(acc, d.d)
    ELSE IF Float("BigCmp", <<Float("BigTimes", <<d.r, 2>>), s>>) > 0 THEN Append(acc, d.d + 1)
    ELSE Append(acc, d.d + (d.d % 2))

GenerateNext(d, s, mp, mm, even, acc) ==
    Float("GenerateDigit", <<d, s, mp, mm, even, acc,
                  Float("BigCmp", <<d.r, mm>>) < (IF even THEN 1 ELSE 0),
                  Float("BigCmp", <<Float("BigAdd", <<d.r, mp>>), s>>) > (IF even THEN -1 ELSE 0)>>)

Generate(r, s, mp, mm, even, acc) ==
    Float("GenerateNext", <<Float("Quotient", <<r, s, 0>>), s, mp, mm, even, acc>>)

\* the power of ten k with (r + mp) / s below 10^k and not below 10^(k-1),
\* and the digits from there
FixUp(r, s, mp, mm, even, k) ==
    IF Float("BigCmp", <<Float("BigAdd", <<r, mp>>), s>>) > (IF even THEN -1 ELSE 0)
    THEN Float("FixUp", <<r, Float("BigTimes", <<s, 10>>), mp, mm, even, k + 1>>)
    ELSE IF Float("BigCmp", <<Float("BigTimes", <<Float("BigAdd", <<r, mp>>), 10>>), s>>) > (IF even THEN -1 ELSE 0)
    THEN [point |-> k,
          digits |-> Float("Generate", <<Float("BigTimes", <<r, 10>>), s, Float("BigTimes", <<mp, 10>>),
                              Float("BigTimes", <<mm, 10>>), even, <<>>>>)]
    ELSE Float("FixUp", <<Float("BigTimes", <<r, 10>>), s, Float("BigTimes", <<mp, 10>>), Float("BigTimes", <<mm, 10>>),
               even, k - 1>>)

Estimated(r, s, mp, mm, even, est) ==
    IF est >= 0
    THEN Float("FixUp", <<r, Float("TimesPow10", <<s, est>>), mp, mm, even, est>>)
    ELSE Float("FixUp", <<Float("TimesPow10", <<r, 0 - est>>), s, Float("TimesPow10", <<mp, 0 - est>>),
               Float("TimesPow10", <<mm, 0 - est>>), even, est>>)

Scaled(r, s, mp, mm, even) ==
    Float("Estimated", <<r, s, mp, mm, even,
              DecimalLen(Float("BigAdd", <<r, mp>>)) - DecimalLen(s)>>)

\* the shortest decimal that rounds to the double q * 2^e and no other
\* one: its neighbour below is half as far as the one above when q is 2^52,
\* `wide`
ShortestOf(q, be, bs, wide) ==
    Float("Scaled", <<Float("BigTimes", <<Float("TimesPow2", <<q, be>>), IF wide THEN 4 ELSE 2>>),
           Float("BigTimes", <<Float("TimesPow2", <<<<1>>, bs>>), IF wide THEN 4 ELSE 2>>),
           Float("TimesPow2", <<<<1>>, be + (IF wide THEN 1 ELSE 0)>>),
           Float("TimesPow2", <<<<1>>, be>>),
           q[1] % 2 = 0>>)

Shortest(q, e) ==
    Float("ShortestOf", <<q, IF e > 0 THEN e ELSE 0, IF e < 0 THEN 0 - e ELSE 0,
               q = TwoTo52 /\ e > MinExponent>>)

\* the double q * 2^e, as the numeral repr() gives for it
Numeral(neg, shortest) ==
    Finite(neg, [i \in 1..Len(shortest.digits) |->
                    Printable[17 + shortest.digits[i]]],
           shortest.point)

Normal(neg, q, e) ==
    IF e > MaxExponent THEN Infinity(neg) ELSE Float("Numeral", <<neg, Float("Shortest", <<q, e>>)>>)

Double(neg, q, e) ==
    IF q = <<>> THEN Zero(neg)
    ELSE IF q = TwoTo53 THEN Float("Normal", <<neg, TwoTo52, e + 1>>)
    ELSE Float("Normal", <<neg, q, e>>)

\* the double nearest to num / den, to the even one of two
Nearest(neg, scaled) ==
    Float("Double", <<neg,
           Float("RoundHalfEven", <<Float("Divide", <<[q |-> <<>>, r |-> scaled.num], scaled.top, 53>>),
                         scaled.top>>),
           scaled.e>>)

ScaledUp(neg, scaled) ==
    Float("Nearest", <<neg, Float("ScaleUp", <<scaled.num, scaled.top, scaled.e>>)>>)

Rounded(neg, num, den) ==
    Float("ScaledUp", <<neg, Float("ScaleDown", <<num, Float("TimesPow2", <<den, 53>>), 0>>)>>)

\* the value of the digits of an exponent; beyond six digits any value is
\* out of the range of a float
ExponentValue(ds) ==
    LET sig == LStrip(ds, {"0"})
    IN  IF Len(sig) > 6 THEN 999999 ELSE ParseDigits(sig, 1, 0).val

\* the digits a numeral of up to this many digits is written with stay as
\* they are when its double is printed (DBL_DIG), between these powers of ten
ExactDigits == 15
MinExactPoint == -306
MaxExactPoint == 308

\* the float of the decimal 0.sig * 10^point, sig without zeros at its ends
FloatOf(neg, sig, point) ==
    IF sig = <<>> THEN Zero(neg)
    ELSE IF point > 310 THEN Infinity(neg)
    ELSE IF point < -330 THEN Zero(neg)
    ELSE IF /\ Len(sig) <= ExactDigits
            /\ point >= MinExactPoint /\ point <= MaxExactPoint
    THEN Finite(neg, sig, point)
    ELSE IF point >= Len(sig)
    THEN Float("Rounded", <<neg, Float("TimesPow10", <<BigOfDigits(sig), point - Len(sig)>>), <<1>>>>)
    ELSE Float("Rounded", <<neg, BigOfDigits(sig), Float("TimesPow10", <<<<1>>, Len(sig) - point>>)>>)

Float(op, x) ==
    CASE Len(x) = 2 /\ op = "BigCmp" -> BigCmp(x[1], x[2])
      [] Len(x) = 2 /\ op = "BigAdd" -> BigAdd(x[1], x[2])
      [] Len(x) = 2 /\ op = "BigSub" -> BigSub(x[1], x[2])
      [] Len(x) = 2 /\ op = "BigTimes" -> BigTimes(x[1], x[2])
      [] Len(x) = 2 /\ op = "TimesPow2" -> TimesPow2(x[1], x[2])
      [] Len(x) = 2 /\ op = "TimesPow10" -> TimesPow10(x[1], x[2])
      [] Len(x) = 3 /\ op = "ScaleDown" -> ScaleDown(x[1], x[2], x[3])
      [] Len(x) = 3 /\ op = "ScaleUp" -> ScaleUp(x[1], x[2], x[3])
      [] Len(x) = 3 /\ op = "Divide" -> Divide(x[1], x[2], x[3])
      [] Len(x) = 2 /\ op = "RoundHalfEven" -> RoundHalfEven(x[1], x[2])
      [] Len(x) = 3 /\ op = "Quotient" -> Quotient(x[1], x[2], x[3])
      [] Len(x) = 8 /\ op = "GenerateDigit" -> GenerateDigit(x[1], x[2], x[3], x[4], x[5], x[6], x[7], x[8])
      [] Len(x) = 6 /\ op = "GenerateNext" -> GenerateNext(x[1], x[2], x[3], x[4], x[5], x[6])
      [] Len(x) = 6 /\ op = "Generate" -> Generate(x[1], x[2], x[3], x[4], x[5], x[6])
      [] Len(x) = 6 /\ op = "FixUp" -> FixUp(x[1], x[2], x[3], x[4], x[5], x[6])
      [] Len(x) = 6 /\ op = "Estimated" -> Estimated(x[1], x[2], x[3], x[4], x[5], x[6])
      [] Len(x) = 5 /\ op = "Scaled" -> Scaled(x[1], x[2], x[3], x[4], x[5])
      [] Len(x) = 4 /\ op = "ShortestOf" -> ShortestOf(x[1], x[2], x[3], x[4])
      [] Len(x) = 2 /\ op = "Shortest" -> Shortest(x[1], x[2])
      [] Len(x) = 2 /\ op = "Numeral" -> Numeral(x[1], x[2])
      [] Len(x) = 3 /\ op = "Normal" -> Normal(x[1], x[2], x[3])
      [] Len(x) = 3 /\ op = "Double" -> Double(x[1], x[2], x[3])
      [] Len(x) = 2 /\ op = "Nearest" -> Nearest(x[1], x[2])
      [] Len(x) = 2 /\ op = "ScaledUp" -> ScaledUp(x[1], x[2])
      [] Len(x) = 3 /\ op = "Rounded" -> Rounded(x[1], x[2], x[3])
      [] Len(x) = 3 /\ op = "FloatOf" -> FloatOf(x[1], x[2], x[3])

\* the float of the decimal intd.fracd * 10^exp
MakeFloat(neg, intd, fracd, exp) ==
    Float("FloatOf", <<neg, RStrip(LStrip(intd \o fracd, {"0"}), {"0"}),
            Len(intd) - (Len(intd \o fracd) - Len(LStrip(intd \o fracd, {"0"})))
            + exp>>)

\* the position after the digits that start at t[i]
RECURSIVE DigitsEnd(_, _)
DigitsEnd(t, i) ==
    IF i <= Len(t) /\ t[i] \in Digits THEN DigitsEnd(t, i + 1) ELSE i

\* the position after the integer part that starts at the digit t[j]: a
\* single 0, or a run of digits
IntegerEnd(t, j) == IF t[j] = "0" THEN j + 1 ELSE DigitsEnd(t, j)

\* the position after the fraction `.` [0-9]+ at t[ie], ie when there is none
FractionEnd(t, ie) ==
    IF ie <= Len(t) /\ t[ie] = "." /\ DigitsEnd(t, ie + 1) > ie + 1
    THEN DigitsEnd(t, ie + 1)
    ELSE ie

\* 1 when a sign follows the exponent letter at t[fe]
ExponentSign(t, fe) ==
    IF fe + 1 <= Len(t) /\ t[fe + 1] \in {"+", "-"} THEN 1 ELSE 0

\* the position after the exponent [eE] [+-]? [0-9]+ at t[fe], fe when there
\* is none
ExponentEnd(t, fe) ==
    IF /\ fe <= Len(t)
       /\ t[fe] \in {"e", "E"}
       /\ DigitsEnd(t, fe + 1 + ExponentSign(t, fe)) > fe + 1 + ExponentSign(t, fe)
    THEN DigitsEnd(t, fe + 1 + ExponentSign(t, fe))
    ELSE fe

\* the exponent written in t[fe..ee-1], 0 when there is none
ExponentOf(t, fe, ee) ==
    IF ee = fe THEN 0
    ELSE IF t[fe + 1] = "-"
    THEN 0 - ExponentValue(SubSeq(t, fe + 2, ee - 1))
    ELSE ExponentValue(SubSeq(t, fe + 1 + ExponentSign(t, fe), ee - 1))

\* the number with the integer part t[j..ie-1], the fraction t[ie..fe-1] and
\* the exponent t[fe..ee-1]: an int without fraction and exponent and a
\* float with one
NumberOf(t, neg, j, ie, fe, ee) ==
    IF ee <= Len(t) /\ t[ee] \in Digits \cup {".", "e", "E"} THEN Fail
    ELSE IF fe # ie \/ ee # fe
    THEN [ok |-> TRUE,
          val |-> [t |-> "float",
                   v |-> MakeFloat(neg, SubSeq(t, j, ie - 1),
                                   IF fe # ie THEN SubSeq(t, ie + 1, fe - 1)
                                   ELSE <<>>,
                                   ExponentOf(t, fe, ee))],
          pos |-> ee]
    ELSE [ok |-> TRUE,
          val |-> [t |-> "int",
                   v |-> IF neg THEN 0 - ParseDigits(t, j, 0).val
                         ELSE ParseDigits(t, j, 0).val],
          pos |-> ee]

\* the number whose digits start at t[j], after the sign if there is one
NumberFrom(t, neg, j) ==
    IF j > Len(t) \/ t[j] \notin Digits THEN Fail
    ELSE NumberOf(t, neg, j, IntegerEnd(t, j),
                  FractionEnd(t, IntegerEnd(t, j)),
                  ExponentEnd(t, FractionEnd(t, IntegerEnd(t, j))))

\* a number: -? (0 | [1-9][0-9]*) (\. [0-9]+)? ([eE] [+-]? [0-9]+)?
ParseNumber(t, i) ==
    NumberFrom(t, t[i] = "-", IF t[i] = "-" THEN i + 1 ELSE i)

Literal(t, i, word, val) ==
    IF i + Len(word) - 1 <= Len(t) /\ SubSeq(t, i, i + Len(word) - 1) = word
    THEN [ok |-> TRUE, val |-> val, pos |-> i + Len(word)]
    ELSE Fail

RECURSIVE ParseValue(_, _)
RECURSIVE ParseMembers(_, _, _)
RECURSIVE ParseElements(_, _, _)

\* the members of an object after `{` or `,`; acc has the keys read so far
\* and what they map to: the key k, the colon at t[c], the value v and the
\* comma or the closing brace at t[e]
MemberNext(t, e, acc) ==
    IF e > Len(t) THEN Fail
    ELSE IF t[e] = "," THEN ParseMembers(t, e + 1, acc)
    ELSE IF t[e] = "}"
    THEN [ok |-> TRUE, val |-> [t |-> "dict", v |-> acc.v, k |-> acc.k],
          pos |-> e + 1]
    ELSE Fail

MemberEnd(t, key, v, acc) ==
    IF ~v.ok THEN Fail
    ELSE MemberNext(t, SkipWs(t, v.pos),
                    [v |-> [x \in DOMAIN acc.v \cup {key} |->
                               IF x = key THEN v.val ELSE acc.v[x]],
                     k |-> IF key \in DOMAIN acc.v THEN acc.k
                           ELSE Append(acc.k, key)])

MemberValue(t, key, c, acc) ==
    IF c > Len(t) \/ t[c] # ":" THEN Fail
    ELSE MemberEnd(t, key, ParseValue(t, c + 1), acc)

MemberColon(t, k, acc) ==
    IF ~k.ok THEN Fail ELSE MemberValue(t, k.val, SkipWs(t, k.pos), acc)

MemberKey(t, j, acc) ==
    IF j > Len(t) \/ t[j] # "\"" THEN Fail
    ELSE MemberColon(t, ParseString(t, j + 1, <<>>), acc)

ParseMembers(t, i, acc) == MemberKey(t, SkipWs(t, i), acc)

\* the elements of an array after `[` or `,`: the comma or the closing
\* bracket at t[e]
ElementNext(t, e, acc) ==
    IF e > Len(t) THEN Fail
    ELSE IF t[e] = "," THEN ParseElements(t, e + 1, acc)
    ELSE IF t[e] = "]"
    THEN [ok |-> TRUE, val |-> [t |-> "list", v |-> acc], pos |-> e + 1]
    ELSE Fail

ElementEnd(t, v, acc) ==
    IF ~v.ok THEN Fail ELSE ElementNext(t, SkipWs(t, v.pos), Append(acc, v.val))

ParseElements(t, i, acc) == ElementEnd(t, ParseValue(t, i), acc)

\* a string as a value
StringValue(k) ==
    IF k.ok THEN [ok |-> TRUE, val |-> [t |-> "str", v |-> k.val], pos |-> k.pos]
    ELSE Fail

\* an object or an array after its opening bracket at t[j], e the position
\* of what follows the whitespace after it
Bracketed(t, j, e) ==
    IF t[j] = "{"
    THEN IF e <= Len(t) /\ t[e] = "}"
         THEN [ok |-> TRUE, val |-> [t |-> "dict", v |-> <<>>, k |-> <<>>],
               pos |-> e + 1]
         ELSE ParseMembers(t, j + 1, [v |-> <<>>, k |-> <<>>])
    ELSE IF e <= Len(t) /\ t[e] = "]"
         THEN [ok |-> TRUE, val |-> [t |-> "list", v |-> <<>>], pos |-> e + 1]
         ELSE ParseElements(t, j + 1, <<>>)

ValueAt(t, j) ==
    IF j > Len(t) THEN Fail
    ELSE IF t[j] \in {"{", "["} THEN Bracketed(t, j, SkipWs(t, j + 1))
    ELSE IF t[j] = "\"" THEN StringValue(ParseString(t, j + 1, <<>>))
    ELSE IF t[j] = "t"
        THEN Literal(t, j, <<"t", "r", "u", "e">>, [t |-> "bool", v |-> TRUE])
    ELSE IF t[j] = "f"
        THEN Literal(t, j, <<"f", "a", "l", "s", "e">>, [t |-> "bool", v |-> FALSE])
    ELSE IF t[j] = "n"
        THEN Literal(t, j, <<"n", "u", "l", "l">>, [t |-> "null"])
    ELSE IF t[j] \in Digits \cup {"-"} THEN ParseNumber(t, j)
    ELSE Fail

ParseValue(t, i) == ValueAt(t, SkipWs(t, i))

\* the value of a text that holds nothing after it but whitespace
Whole(text, v) ==
    IF v.ok /\ SkipWs(text, v.pos) > Len(text)
    THEN [ok |-> TRUE, val |-> v.val]
    ELSE Fail

decode_value(text) == Whole(text, ParseValue(text, 1))

-----------------------------------------------------------------------------
\* KnownSettings._parse_settings

\* re.match(r'"((?:[^"]|\\.)*)":', stripped), by backtracking as the regex
\* engine does: at position i the group first tries one more character that
\* is not a quote, then a backslash and any character, and only then the
\* closing `":`.  KeyEnd is the position of the closing quote, 0 for no match.
RECURSIVE KeyEnd(_, _)
KeyEnd(s, i) ==
    LET a1 == IF i <= Len(s) /\ s[i] # "\"" THEN KeyEnd(s, i + 1) ELSE 0
        a2 == IF i + 1 <= Len(s) /\ s[i] = "\\" /\ s[i + 1] # "\n"
              THEN KeyEnd(s, i + 2) ELSE 0
    IN  IF a1 # 0 THEN a1
        ELSE IF a2 # 0 THEN a2
        ELSE IF i + 1 <= Len(s) /\ s[i] = "\"" /\ s[i + 1] = ":" THEN i
        ELSE 0

KeyMatch(stripped) ==
    IF stripped # <<>> /\ stripped[1] = "\""
    THEN LET j == KeyEnd(stripped, 2) IN
         IF j = 0 THEN None ELSE [key |-> SubSeq(stripped, 2, j - 1)]
    ELSE None

\* mutant: the scan starts inside a block comment
ParseStart_in_comment(cm) ==
    [content |-> <<>>, comment |-> <<>>, in_comment |-> TRUE, comments |-> cm]

\* the locals of _parse_settings before the first line, with self.comments
ParseStart(cm) ==
    [content |-> <<>>, comment |-> <<>>, in_comment |-> FALSE, comments |-> cm]

\* mutant: the comment of a later key line replaces the one recorded
RecordComment_overwrite(cm, key, comment) ==
    [k \in DOMAIN cm \cup {key} |->
        IF k = key THEN dedent(Join(comment, <<"\n">>)) ELSE cm[k]]

\* `if key not in self.comments: self.comments[key] = ...`
RecordComment(cm, key, comment) ==
    IF key \in DOMAIN cm THEN cm
    ELSE [k \in DOMAIN cm \cup {key} |->
            IF k = key THEN dedent(Join(comment, <<"\n">>)) ELSE cm[k]]

\* mutant: the pending comment is not cleared at the key line
KeyLine_keep(st, key) ==
    [st EXCEPT !.comments = RecordComment(@, key, st.comment)]

\* a kept line that matches the key regex while a comment is pending: the
\* comment is recorded for the key and cleared
KeyLine(st, key) ==
    [st EXCEPT !.comments = RecordComment(@, key, st.comment),
               !.comment = <<>>]

\* one iteration of `for line in lines`
ParseLine(st, line) ==
    LET stripped == Strip(line) IN
    IF st.in_comment THEN
        IF EndsWith(stripped, <<"*", "/">>) THEN
            LET rest == RStrip(line, {"*", "/", " ", "\t"}) IN
            [st EXCEPT !.in_comment = FALSE,
                       !.comment = IF rest # <<>> THEN Append(@, rest) ELSE @]
        ELSE IF StartsWith(stripped, <<"*", " ">>) THEN
            [st EXCEPT !.comment = Append(@, Drop(stripped, 2))]
        ELSE
            [st EXCEPT !.comment = Append(@, line)]
    ELSE IF stripped = <<>> THEN st
    ELSE IF StartsWith(stripped, <<"/", "*">>) THEN
        LET rest == LStrip(Drop(stripped, 2), {"*"}) IN
        [st EXCEPT !.in_comment = TRUE,
                   !.comment = IF rest # <<>> THEN Append(@, rest) ELSE @]
    ELSE IF StartsWith(stripped, <<"/", "/">>) THEN
        LET rest == Drop(stripped, 2) IN
        IF rest = <<>> \/ ~EndsWith(rest, <<"/", "/">>)
        THEN [st EXCEPT !.comment = Append(@, rest)]
        ELSE st
    ELSE
        LET kept == [st EXCEPT !.content = Append(@, line)]
            match == KeyMatch(stripped)
        IN  IF st.comment = <<>> \/ match = None THEN kept
            ELSE KeyLine(kept, match.key)

RECURSIVE ParseLines(_, _)
ParseLines(st, ls) ==
    IF ls = <<>> THEN st ELSE ParseLines(ParseLine(st, Head(ls)), Tail(ls))

\* the whole method: the comments it leaves in self.comments, and the decoded
\* value it returns or the exception it raises (ok = FALSE)
parse_settings(ls, cm) ==
    LET st == ParseLines(ParseStart(cm), ls)
    IN  [comments |-> st.comments,
         returned |-> decode_value(Join(st.content, <<"\n">>))]

-----------------------------------------------------------------------------
\* The installed resources.  A resource is a path (its segments between the
\* slashes), whether sublime.load_resource can read it, and its lines.

\* the settings of the package that owns the syntax
\*     {
\*       // doc a
\*       "a": 1,
\*       /*
\*        * doc <b> &
\*        */
\*       "b": true
\*     }
FileA ==
    << <<"{">>,
       <<" ", " ", "/", "/", " ", "d", "o", "c", " ", "a">>,
       <<" ", " ", "\"", "a", "\"", ":", " ", "1", ",">>,
       <<" ", " ", "/", "*">>,
       <<" ", " ", " ", "*", " ", "d", "o", "c", " ", "<", "b", ">", " ", "&">>,
       <<" ", " ", " ", "*", "/">>,
       <<" ", " ", "\"", "b", "\"", ":", " ", "t", "r", "u", "e">>,
       <<"}">> >>

\* the same settings file in another package
\*     {
\*       // other a
\*       "a": 2,
\*       "c": "x"
\*     }
FileB ==
    << <<"{">>,
       <<" ", " ", "/", "/", " ", "o", "t", "h", "e", "r", " ", "a">>,
       <<" ", " ", "\"", "a", "\"", ":", " ", "2", ",">>,
       <<" ", " ", "\"", "c", "\"", ":", " ", "\"", "x", "\"">>,
       <<"}">> >>

\* a file that is not JSON after a commented key
\*     {
\*       // doc d
\*       "d": 1,
\*       oops
\*     }
FileBad ==
    << <<"{">>,
       <<" ", " ", "/", "/", " ", "d", "o", "c", " ", "d">>,
       <<" ", " ", "\"", "d", "\"", ":", " ", "1", ",">>,
       <<" ", " ", "o", "o", "p", "s">>,
       <<"}">> >>

\* a file that decodes to a list, not to a mapping
\*     []
FileList ==
    << <<"[", "]">> >>

\* the user's own settings
\*     {
\*       "a": 9,
\*       "u": 1
\*     }
FileUser ==
    << <<"{">>,
       <<" ", " ", "\"", "a", "\"", ":", " ", "9", ",">>,
       <<" ", " ", "\"", "u", "\"", ":", " ", "1">>,
       <<"}">> >>

\* a -hints file
\*     {
\*       // hint c
\*       "c": "y",
\*       "h": [1, 2]
\*     }
FileHints ==
    << <<"{">>,
       <<" ", " ", "/", "/", " ", "h", "i", "n", "t", " ", "c">>,
       <<" ", " ", "\"", "c", "\"", ":", " ", "\"", "y", "\"", ",">>,
       <<" ", " ", "\"", "h", "\"", ":", " ", "[", "1", ",", " ", "2", "]">>,
       <<"}">> >>

\* the general preferences
\*     {
\*       // pref a
\*       "a": 3,
\*       // doc p
\*       "p": null
\*     }
FilePref ==
    << <<"{">>,
       <<" ", " ", "/", "/", " ", "p", "r", "e", "f", " ", "a">>,
       <<" ", " ", "\"", "a", "\"", ":", " ", "3", ",">>,
       <<" ", " ", "/", "/", " ", "d", "o", "c", " ", "p">>,
       <<" ", " ", "\"", "p", "\"", ":", " ", "n", "u", "l", "l">>,
       <<"}">> >>

\* a file of the Preferences Editor package
\*     {
\*       // doc e
\*       "e": 1
\*     }
FileEditor ==
    << <<"{">>,
       <<" ", " ", "/", "/", " ", "d", "o", "c", " ", "e">>,
       <<" ", " ", "\"", "e", "\"", ":", " ", "1">>,
       <<"}">> >>

\* a setting that is a mapping, with comments inside the mapping
\*     {
\*       // doc m
\*       "m": {
\*         // doc n
\*         "n": 1,
\*         // inner m
\*         "m": 2
\*       }
\*     }
FileNested ==
    << <<"{">>,
       <<" ", " ", "/", "/", " ", "d", "o", "c", " ", "m">>,
       <<" ", " ", "\"", "m", "\"", ":", " ", "{">>,
       <<" ", " ", " ", " ", "/", "/", " ", "d", "o", "c", " ", "n">>,
       <<" ", " ", " ", " ", "\"", "n", "\"", ":", " ", "1", ",">>,
       <<" ", " ", " ", " ", "/", "/", " ", "i", "n", "n", "e", "r", " ", "m">>,
       <<" ", " ", " ", " ", "\"", "m", "\"", ":", " ", "2">>,
       <<" ", " ", "}">>,
       <<"}">> >>

Resource(package, name, readable, text) ==
    [path |-> <<"Packages", package, name>>, readable |-> readable, text |-> text]

Catalogue ==
    << Resource("Python", "Python.sublime-settings", TRUE, FileA),
       Resource("PkgB", "Python.sublime-settings", TRUE, FileB),
       Resource("Broken", "Python.sublime-settings", TRUE, FileBad),
       Resource("User", "Python.sublime-settings", TRUE, FileUser),
       Resource("PkgB", "Python.sublime-settings-hints", TRUE, FileHints),
       Resource("Default", "Preferences.sublime-settings", TRUE, FilePref),
       Resource("Preferences Editor", "Preferences.sublime-settings-hints",
                TRUE, FileEditor),
       Resource("Python", "Python.sublime-syntax", TRUE, <<>>),
       Resource("Old", "Python.tmLanguage", TRUE, <<>>),
       Resource("Gone", "Python.sublime-settings", FALSE, <<>>),
       Resource("Odd", "Python.sublime-settings", TRUE, FileList),
       Resource("Nested", "Python.sublime-settings", TRUE, FileNested) >>

\* the sequences of at most n distinct catalogue entries
RECURSIVE Picks(_)
Picks(n) ==
    IF n = 0 THEN {<<>>}
    ELSE LET shorter == Picks(n - 1) IN
         shorter \cup
         {Append(w, c) : w \in {v \in shorter : Len(v) = n - 1},
                         c \in 1..Len(Catalogue)}

Worlds ==
    {[i \in 1..Len(w) |-> Catalogue[w[i]]] :
        w \in {v \in Picks(MaxResources) :
                 \A i, j \in 1..Len(v) : i # j => v[i] # v[j]}}

\* the settings files a view can show, as <<root, extension>>
FileNames ==
    {<<"Python", ".sublime-settings">>, <<"Preferences", ".sublime-settings">>}

PREF_FILE == "Preferences.sublime-settings"

Basename(path) == path[Len(path)]

\* sublime.find_resources(pattern): the paths of the resources of that name
find_resources(w, pattern) ==
    LET found == SelectSeq(w, LAMBDA r : Basename(r.path) = pattern)
    IN  [i \in 1..Len(found) |-> found[i].path]

\* the resource sublime.load_resource(path) reads
ResourceAt(w, path) == CHOOSE r \in {w[i] : i \in 1..Len(w)} : r.path = path

\* `"/" + segment + "/" in resource`: the segment lies between two slashes
ContainsSegment(path, segment) ==
    \E i \in 2..(Len(path) - 1) : path[i] = segment

\* ignored_patterns = frozenset(("/User/", "/Preferences Editor/"))
ignored_patterns == {"User", "Preferences Editor"}

\* mutant: only the User package is ignored
is_ignored_user_only(path) == ContainsSegment(path, "User")

is_ignored(path) ==
    \E ignored \in ignored_patterns : ContainsSegment(path, ignored)

\* KnownSettings._is_syntax_specific
is_syntax_specific(w, fn) ==
    \E ext \in {".sublime-syntax", ".tmLanguage"} :
        find_resources(w, fn[1] \o ext) # <<>>

\* mutant: the general preferences are scanned for every settings file
scan_list_always_prefs(w, fn) ==
    LET name == fn[1] \o fn[2]
    IN  find_resources(w, name) \o find_resources(w, name \o "-hints")
        \o find_resources(w, PREF_FILE)
        \o find_resources(w, PREF_FILE \o "-hints")

\* the list `resources` of _load_settings before its for loop
scan_list(w, fn) ==
    LET name == fn[1] \o fn[2]
        same == find_resources(w, name) \o find_resources(w, name \o "-hints")
    IN  IF is_syntax_specific(w, fn)
        THEN same \o find_resources(w, PREF_FILE)
                  \o find_resources(w, PREF_FILE \o "-hints")
        ELSE same

\* mutant: the merge overwrites the value of an earlier resource
setdefault_overwrite(d, parsed, key) ==
    IF key \in DOMAIN parsed THEN parsed[key] ELSE d[key]

\* self.defaults.setdefault(key, value) for the items of the parsed mapping
setdefault(d, parsed, key) ==
    IF key \in DOMAIN d THEN d[key] ELSE parsed[key]

merge(d, parsed) ==
    [key \in DOMAIN d \cup DOMAIN parsed |-> setdefault(d, parsed, key)]

-----------------------------------------------------------------------------
\* One KnownSettings object: __init__ has run trigger_settings_reload, which
\* emptied both maps and scheduled _load_settings on the host's async thread.

\* idle values of the variables a specification does not use
IdleParse ==
    /\ lines = <<>>
    /\ lineno = 0
    /\ scan = [content |-> <<>>, comment |-> <<>>, in_comment |-> FALSE]

IdleScope ==
    /\ regions = <<>>
    /\ typed = <<>>
    /\ carets = <<>>
    /\ base_suffix = None
    /\ result = None
    /\ statuses = <<>>

IdleValue ==
    /\ vquery = None
    /\ vanswer = None

IdleCommit ==
    /\ after = <<>>
    /\ commands = <<>>

IdleReload ==
    /\ listeners = <<>>
    /\ objects = <<>>
    /\ tasks = <<>>
    /\ main = None
    /\ observed = None
    /\ views = <<>>
    /\ linted = None

IdleKnownSettings ==
    /\ world = <<>>
    /\ filename = <<"Python", ".sublime-settings">>
    /\ defaults = <<>>
    /\ pc = "idle"
    /\ resources = <<>>
    /\ idx = 0
    /\ loaded = <<>>
    /\ errors = <<>>
    /\ on_loaded = 0

Init ==
    /\ world \in Worlds
    /\ filename \in FileNames
    /\ defaults = <<>>
    /\ comments = <<>>
    /\ pc = "scheduled"
    /\ resources = <<>>
    /\ idx = 0
    /\ loaded = <<>>
    /\ errors = <<>>
    /\ on_loaded = 0
    /\ IdleParse
    /\ IdleScope
    /\ IdleValue
    /\ IdleReload
    /\ IdleCommit

\* _load_settings up to its for loop: the resources to scan
LoadSettingsBegin ==
    /\ pc = "scheduled"
    /\ resources' = scan_list(world, filename)
    /\ idx' = 1
    /\ pc' = "scanning"
    /\ UNCHANGED <<world, filename, defaults, comments, loaded, errors, on_loaded>>
    /\ UNCHANGED <<psvars, scvars, vcvars, rlvars, ccvars>>

\* what one iteration of the for loop leaves behind
LoadResource(w, d, cm, path) ==
    IF is_ignored(path)
    THEN [defaults |-> d, comments |-> cm, loaded |-> FALSE, error |-> FALSE]
    ELSE LET r == ResourceAt(w, path) IN
         IF ~r.readable
         THEN [defaults |-> d, comments |-> cm, loaded |-> TRUE, error |-> TRUE]
         ELSE LET parsed == parse_settings(r.text, cm) IN
              IF parsed.returned.ok /\ parsed.returned.val.t = "dict"
              THEN [defaults |-> merge(d, parsed.returned.val.v),
                    comments |-> parsed.comments,
                    loaded |-> TRUE, error |-> FALSE]
              ELSE [defaults |-> d, comments |-> parsed.comments,
                    loaded |-> TRUE, error |-> TRUE]

\* mutant: an iteration that raised ends the loop
AfterError_abort(i, n) == n + 1

\* after an iteration that raised, the loop goes on with the next resource
AfterError(i, n) == i + 1

\* one iteration of `for resource in resources`
LoadSettingsResource ==
    /\ pc = "scanning"
    /\ idx <= Len(resources)
    /\ LET path == resources[idx]
           out == LoadResource(world, defaults, comments, path)
       IN  /\ defaults' = out.defaults
           /\ comments' = out.comments
           /\ loaded' = IF out.loaded THEN Append(loaded, path) ELSE loaded
           /\ errors' = IF out.error THEN Append(errors, path) ELSE errors
           /\ idx' = IF out.error THEN AfterError(idx, Len(resources)) ELSE idx + 1
    /\ UNCHANGED <<world, filename, pc, resources, on_loaded>>
    /\ UNCHANGED <<psvars, scvars, vcvars, rlvars, ccvars>>

\* the end of _load_settings: the on_loaded callback
LoadSettingsEnd ==
    /\ pc = "scanning"
    /\ idx > Len(resources)
    /\ pc' = "loaded"
    /\ on_loaded' = on_loaded + 1
    /\ UNCHANGED <<world, filename, defaults, comments, resources, idx,
                   loaded, errors>>
    /\ UNCHANGED <<psvars, scvars, vcvars, rlvars, ccvars>>

Next ==
    \/ LoadSettingsBegin
    \/ LoadSettingsResource
    \/ LoadSettingsEnd

Spec == Init /\ [][Next]_vars

-----------------------------------------------------------------------------
\* _parse_settings on its own: the for loop run line by line over every list
\* of at most MaxLines lines of the vocabulary, with self.comments empty or
\* already holding a comment for the key "a".

\*   {
LineOpen == <<"{">>
\*   }
LineClose == <<"}">>
\*     // doc
LineDoc == <<" ", " ", "/", "/", " ", "d", "o", "c">>
\*     "a": 1,
LineKeyA == <<" ", " ", "\"", "a", "\"", ":", " ", "1", ",">>
\*     "b": true
LineKeyB == <<" ", " ", "\"", "b", "\"", ":", " ", "t", "r", "u", "e">>
\*     /* one */
LineBlockOne == <<" ", " ", "/", "*", " ", "o", "n", "e", " ", "*", "/">>
\*     /*
LineBlockOpen == <<" ", " ", "/", "*">>
\*      * more
LineBlockMore == <<" ", " ", " ", "*", " ", "m", "o", "r", "e">>
\*      */
LineBlockClose == <<" ", " ", " ", "*", "/">>
\*   (an empty line)
LineEmpty == <<>>
\*     // -- //
LineSeparator == <<" ", " ", "/", "/", " ", "-", "-", " ", "/", "/">>
\*     oops
LineOops == <<" ", " ", "o", "o", "p", "s">>

Vocabulary ==
    {LineOpen, LineClose, LineDoc, LineKeyA,
     LineKeyB, LineBlockOne, LineBlockOpen, LineBlockMore,
     LineBlockClose, LineEmpty, LineSeparator, LineOops}

RECURSIVE Texts(_)
Texts(n) ==
    IF n = 0 THEN {<<>>}
    ELSE LET shorter == Texts(n - 1) IN
         shorter \cup
         {Append(t, l) : t \in {u \in shorter : Len(u) = n - 1}, l \in Vocabulary}

Earlier == <<"e", "a", "r", "l", "i", "e", "r">>

InitParse ==
    /\ lines \in Texts(MaxLines)
    /\ lineno = 0
    /\ scan = [content |-> <<>>, comment |-> <<>>, in_comment |-> FALSE]
    /\ comments \in {<<>>, [k \in {<<"a">>} |-> Earlier]}
    /\ IdleKnownSettings
    /\ IdleScope
    /\ IdleValue
    /\ IdleReload
    /\ IdleCommit

\* one iteration of `for line in lines` in _parse_settings
ParseStep ==
    /\ lineno < Len(lines)
    /\ LET st == ParseLine([content |-> scan.content, comment |-> scan.comment,
                            in_comment |-> scan.in_comment, comments |-> comments],
                           lines[lineno + 1])
       IN  /\ scan' = [content |-> st.content, comment |-> st.comment,
                       in_comment |-> st.in_comment]
           /\ comments' = st.comments
    /\ lineno' = lineno + 1
    /\ UNCHANGED <<lines, world, filename, defaults, pc, resources, idx,
                   loaded, errors, on_loaded>>
    /\ UNCHANGED <<scvars, vcvars, rlvars, ccvars>>

NextParse == ParseStep

SpecParse == InitParse /\ [][NextParse]_vars

-----------------------------------------------------------------------------
\* Properties of the scan (specification Spec)

Min(S) == CHOOSE x \in S : \A y \in S : x <= y

\* the path has /User/ or /Preferences Editor/ in it
InUserOrEditor(path) ==
    \E i \in 1..Len(path) :
        i > 1 /\ i < Len(path) /\ path[i] \in {"User", "Preferences Editor"}

\* what _parse_settings gives for each text a resource can have, when no
\* comment has been recorded yet
ParsedAlone ==
    [t \in {Catalogue[c].text : c \in 1..Len(Catalogue)} |->
        parse_settings(t, <<>>)]

\* what decoding the comment-free text of the resource gives
Decoded(path) ==
    LET r == ResourceAt(world, path)
    IN  IF r.readable THEN ParsedAlone[r.text].returned ELSE Fail

\* the resource is not ignored, can be read and decodes to a mapping
Parses(path) ==
    /\ ~InUserOrEditor(path)
    /\ Decoded(path).ok
    /\ Decoded(path).val.t = "dict"

Defines(path, key) == Parses(path) /\ key \in DOMAIN Decoded(path).val.v

ValueIn(path, key) == Decoded(path).val.v[key]

WorldPaths == [i \in 1..Len(world) |-> world[i].path]

\* every key some installed resource defines, and every key of `defaults`
AllKeys ==
    DOMAIN defaults \cup
    UNION {DOMAIN Decoded(world[i].path).val.v :
             i \in {j \in 1..Len(world) :
                      /\ Decoded(world[j].path).ok
                      /\ Decoded(world[j].path).val.t = "dict"}}

\* C1: at every point of the scan, a key has a default exactly if one of the
\* resources processed so far is not ignored, parses and defines it, and the
\* default is the value of the first such resource in scan order; resources
\* processed later never replace it.
C1_FirstResourceWins ==
    pc \in {"scanning", "loaded"} =>
        \A key \in AllKeys :
            LET defining == {i \in 1..(idx - 1) : Defines(resources[i], key)}
            IN  IF defining = {}
                THEN key \notin DOMAIN defaults
                ELSE /\ key \in DOMAIN defaults
                     /\ defaults[key] = ValueIn(resources[Min(defining)], key)

\* a finished scan in which two parsed resources define one key differently
C1_Witness ==
    /\ pc = "loaded"
    /\ \E i, j \in 1..Len(resources) : \E key \in DOMAIN defaults :
          /\ i < j
          /\ Defines(resources[i], key)
          /\ Defines(resources[j], key)
          /\ ValueIn(resources[i], key) # ValueIn(resources[j], key)
          /\ defaults[key] = ValueIn(resources[i], key)

\* C2: a resource that cannot be loaded or parsed does not end the scan: a
\* failure is logged at the position of the loop and nowhere else, and when
\* the scan has finished the loop has passed the last resource, every
\* resource that is not ignored was loaded, everything the parsing ones define
\* has a default and every failing one is logged, however many fail and
\* wherever they are.
C2_ScanSurvivesErrors ==
    /\ pc = "scanning" =>
          /\ idx \in 1..(Len(resources) + 1)
          /\ \A n \in 1..Len(errors) :
                \E i \in 1..(idx - 1) : resources[i] = errors[n]
    /\ pc = "loaded" =>
          /\ idx = Len(resources) + 1
          /\ \A i \in 1..Len(resources) :
                ~InUserOrEditor(resources[i]) =>
                    /\ \E n \in 1..Len(loaded) : loaded[n] = resources[i]
                    /\ IF Parses(resources[i])
                       THEN DOMAIN Decoded(resources[i]).val.v \subseteq DOMAIN defaults
                       ELSE \E n \in 1..Len(errors) : errors[n] = resources[i]

\* a finished scan whose first two resources failed and whose third is merged
C2_Witness ==
    /\ pc = "loaded"
    /\ Len(resources) = 3
    /\ errors = <<resources[1], resources[2]>>
    /\ Parses(resources[3])
    /\ DOMAIN Decoded(resources[3]).val.v # {}
    /\ DOMAIN Decoded(resources[3]).val.v \subseteq DOMAIN defaults

\* C3 (as claimed): processing a resource whose loading or parsing fails
\* changes neither `defaults` nor `comments`.
C3_FailedResourceLeavesNoTrace ==
    [][Len(errors') > Len(errors) =>
          defaults' = defaults /\ comments' = comments]_vars

\* C4: no resource with /User/ or /Preferences Editor/ in its path is handed
\* to load_resource, and every entry of `defaults` and of `comments` is one
\* that a loaded resource (hence not an ignored one) gives.
C4_IgnoredNeverLoaded ==
    /\ \A n \in 1..Len(loaded) : ~InUserOrEditor(loaded[n])
    /\ \A key \in DOMAIN defaults :
          \E n \in 1..Len(loaded) :
              /\ Defines(loaded[n], key)
              /\ defaults[key] = ValueIn(loaded[n], key)
    /\ \A key \in DOMAIN comments :
          \E n \in 1..Len(loaded) :
              LET r == ResourceAt(world, loaded[n])
                  found == ParsedAlone[r.text].comments
              IN  /\ r.readable
                  /\ key \in DOMAIN found
                  /\ comments[key] = found[key]

\* a finished scan that passed an ignored resource before and after resources
\* it loaded; a key only the ignored resource defines has no default
C4_Witness ==
    /\ pc = "loaded"
    /\ \E i, j, k \in 1..Len(resources) :
          /\ i < j /\ j < k
          /\ Parses(resources[i])
          /\ InUserOrEditor(resources[j])
          /\ Parses(resources[k])
          /\ LET r == ResourceAt(world, resources[j])
                 own == ParsedAlone[r.text].returned
             IN  /\ own.ok
                 /\ \E key \in DOMAIN own.val.v : key \notin DOMAIN defaults
    /\ defaults # <<>>

\* the paths of the installed resources of that name, in enumeration order
NamedLike(name) == SelectSeq(WorldPaths, LAMBDA path : path[Len(path)] = name)

SettingsName == filename[1] \o filename[2]

\* a syntax definition with the base name of the settings file is installed
SyntaxExists ==
    \E i \in 1..Len(world) :
        world[i].path[Len(world[i].path)]
            \in {filename[1] \o ".sublime-syntax", filename[1] \o ".tmLanguage"}

IsOwn(path) ==
    path[Len(path)] \in {SettingsName, SettingsName \o "-hints"}

\* C5: the scan visits the resources named like the settings file, then the
\* -hints ones, then, only with a syntax definition of the same base name,
\* the Preferences ones and their -hints.  So a key that a same-named (or
\* -hints) resource defines takes its default from such a resource, whatever
\* Preferences says, and without the syntax definition nothing but the
\* same-named and -hints resources is loaded.
C5_ScanOrder ==
    /\ pc \in {"scanning", "loaded"} =>
          resources =
              NamedLike(SettingsName) \o NamedLike(SettingsName \o "-hints")
              \o (IF SyntaxExists
                  THEN NamedLike("Preferences.sublime-settings")
                       \o NamedLike("Preferences.sublime-settings-hints")
                  ELSE <<>>)
    /\ pc = "loaded" =>
          \A key \in AllKeys :
              LET own == {i \in 1..Len(world) :
                            /\ IsOwn(world[i].path)
                            /\ Defines(world[i].path, key)}
              IN  own # {} =>
                      /\ key \in DOMAIN defaults
                      /\ \E i \in own : defaults[key] = ValueIn(world[i].path, key)
    /\ ~SyntaxExists => \A n \in 1..Len(loaded) : IsOwn(loaded[n])

\* a finished scan of a syntax-specific file: Preferences is installed before
\* the same-named resource and defines the same key with another value; the
\* same-named value is the default, and Preferences gave its other key
C5_Witness ==
    /\ pc = "loaded"
    /\ SyntaxExists
    /\ SettingsName # "Preferences.sublime-settings"
    /\ \E i, j \in 1..Len(world) : \E key, other \in DOMAIN defaults :
          /\ i < j
          /\ world[i].path[3] = "Preferences.sublime-settings"
          /\ world[j].path[3] = SettingsName
          /\ Defines(world[i].path, key)
          /\ Defines(world[j].path, key)
          /\ ValueIn(world[i].path, key) # ValueIn(world[j].path, key)
          /\ defaults[key] = ValueIn(world[j].path, key)
          /\ Defines(world[i].path, other)
          /\ ~Defines(world[j].path, other)
          /\ defaults[other] = ValueIn(world[i].path, other)

-----------------------------------------------------------------------------
\* Properties of _parse_settings (specification SpecParse)

\* the line, stripped, starts with a quoted key and a colon; no line of the
\* vocabulary has a backslash in it
QuotedKeyEnd(stripped) ==
    IF Len(stripped) >= 3 /\ stripped[1] = "\""
    THEN LET quotes == {j \in 2..Len(stripped) : stripped[j] = "\""}
         IN  IF quotes # {} /\ Min(quotes) < Len(stripped)
                /\ stripped[Min(quotes) + 1] = ":"
             THEN Min(quotes) ELSE 0
    ELSE 0

\* C6: a step of the scanner changes `comments` only at a key line reached
\* with a pending comment, and there only for that line's key: a key without
\* a comment gets the pending block, and the pending comment is cleared, so
\* that no later key can get it.  A key line reached without a pending comment
\* records nothing, and a kept line without a key leaves the pending comment
\* for the first key line that follows.
C6_CommentGoesToNextKey ==
    [][ lineno' = lineno + 1 =>
          LET stripped == Strip(lines[lineno + 1])
              kept == /\ ~scan.in_comment
                      /\ stripped # <<>>
                      /\ ~StartsWith(stripped, <<"/", "*">>)
                      /\ ~StartsWith(stripped, <<"/", "/">>)
              end == QuotedKeyEnd(stripped)
              key == SubSeq(stripped, 2, end - 1)
          IN  IF kept /\ end # 0 /\ scan.comment # <<>>
              THEN /\ scan'.comment = <<>>
                   /\ DOMAIN comments' = DOMAIN comments \cup {key}
                   /\ \A k \in DOMAIN comments : comments'[k] = comments[k]
                   /\ key \notin DOMAIN comments =>
                          comments'[key] = dedent(Join(scan.comment, <<"\n">>))
              ELSE /\ comments' = comments
                   /\ kept => scan'.comment = scan.comment
    ]_vars

\* a comment line, then a line that is kept but has no key, then the line of
\* key "b": the comment is recorded for "b" and no longer pending
C6_Witness ==
    /\ lineno = 3
    /\ lines = <<LineDoc, LineOpen, LineKeyB>>
    /\ <<"b">> \in DOMAIN comments
    /\ comments[<<"b">>] = <<"d", "o", "c">>
    /\ scan.comment = <<>>

\* the keys some resource has a comment for
CommentedKeys ==
    UNION {DOMAIN ParsedAlone[Catalogue[c].text].comments : c \in 1..Len(Catalogue)}

\* the comments recorded after the first n lines of a text, starting with
\* none
CommentsAfter(text, n) == ParseLines(ParseStart(<<>>), SubSeq(text, 1, n)).comments

\* the table that gives, for every pair of a text of a resource and a key,
\* the comment found first for the key: the one recorded by the shortest
\* beginning of the text that records one
FirstFound ==
    [at \in {Catalogue[c].text : c \in 1..Len(Catalogue)} \X CommentedKeys |->
        LET found == {n \in 1..Len(at[1]) :
                        at[2] \in DOMAIN CommentsAfter(at[1], n)}
        IN  IF found = {} THEN None
            ELSE Some(CommentsAfter(at[1], Min(found))[at[2]])]
    @@ <<>>

\* the positions in `loaded` of the resources read that have a comment for
\* the key
Commenting(key) ==
    {n \in 1..Len(loaded) :
        /\ ResourceAt(world, loaded[n]).readable
        /\ FirstFound[<<ResourceAt(world, loaded[n]).text, key>>] # None}

\* C23: no step of a scan changes or removes an entry of `comments`, and at
\* every point of the scan a key has an entry exactly if a resource read so
\* far has a comment for it, the entry being the comment found first in the
\* first such resource in scan order.
C23_FirstCommentWins ==
    /\ [][\A key \in DOMAIN comments :
             key \in DOMAIN comments' /\ comments'[key] = comments[key]]_vars
    /\ [](/\ DOMAIN comments \subseteq CommentedKeys
          /\ \A key \in CommentedKeys :
                IF Commenting(key) = {}
                THEN key \notin DOMAIN comments
                ELSE /\ key \in DOMAIN comments
                     /\ Some(comments[key]) =
                            FirstFound[<<ResourceAt(world,
                                                    loaded[Min(Commenting(key))]).text,
                                         key>>])

\* a finished scan that read a resource with two comments for the key "m"
\* and, before or after it, resources with other comments for the key "a":
\* each key has the first comment
C23_Witness ==
    /\ pc = "loaded"
    /\ \E n \in 1..Len(loaded) : ResourceAt(world, loaded[n]).text = FileNested
    /\ <<"m">> \in DOMAIN comments
    /\ comments[<<"m">>] = <<"d", "o", "c", " ", "m">>
    /\ \E i, j \in Commenting(<<"a">>) :
          /\ i < j
          /\ FirstFound[<<ResourceAt(world, loaded[i]).text, <<"a">> >>]
                 # FirstFound[<<ResourceAt(world, loaded[j]).text, <<"a">> >>]
          /\ Some(comments[<<"a">>])
                 = FirstFound[<<ResourceAt(world, loaded[i]).text, <<"a">> >>]

\* C25 (as claimed): after a scan has finished, every key that has an entry
\* in `comments` has an entry in `defaults`.
C25_CommentedKeysAreKnown ==
    pc = "loaded" => DOMAIN comments \subseteq DOMAIN defaults

-----------------------------------------------------------------------------
\* The scope naming conventions.  A scope string, like every text of the
\* syntax definition, is a sequence of atoms: the separators "." and " " and
\* separator-free pieces of text, no piece being a concatenation of others;
\* a segment of a scope is the sequence of pieces between two dots.

\* data.py: the non-blank lines of DATA, each as its depth (its indentation
\* in units of four blanks) and its name
DATA ==
    << <<1, "comment">>, <<2, "line">>, <<3, "double-slash">>,
         <<3, "double-dash">>, <<3, "number-sign">>, <<3, "percentage">>,
         <<3, "semi-colon">>, <<2, "block">>, <<3, "documentation">>,
       <<1, "constant">>, <<2, "numeric">>, <<3, "integer">>, <<3, "float">>,
         <<3, "hex">>, <<3, "octal">>, <<3, "complex">>, <<2, "character">>,
         <<3, "escape">>, <<2, "language">>, <<2, "other">>,
         <<3, "placeholder">>,
       <<1, "entity">>, <<2, "name">>, <<3, "class">>, <<4, "forward-decl">>,
         <<3, "struct">>, <<3, "enum">>, <<3, "union">>, <<3, "trait">>,
         <<3, "interface">>, <<3, "type">>, <<3, "function">>,
         <<4, "constructor">>, <<4, "destructor">>, <<3, "namespace">>,
         <<3, "constant">>, <<3, "label">>, <<3, "section">>, <<3, "tag">>,
         <<2, "other">>, <<3, "inherited-class">>, <<3, "attribute-name">>,
       <<1, "invalid">>, <<2, "illegal">>, <<2, "deprecated">>,
       <<1, "keyword">>, <<2, "control">>, <<3, "conditional">>,
         <<3, "flow">>, <<3, "import">>, <<2, "declaration">>,
         <<3, "function">>, <<3, "class">>, <<3, "struct">>, <<3, "enum">>,
         <<3, "union">>, <<3, "trait">>, <<3, "interface">>, <<3, "impl">>,
         <<2, "operator">>, <<3, "assignment">>, <<3, "arithmetic">>,
         <<3, "bitwise">>, <<3, "logical">>, <<3, "word">>, <<2, "other">>,
       <<1, "markup">>, <<2, "heading">>, <<2, "list">>, <<3, "numbered">>,
         <<3, "unnumbered">>, <<2, "bold">>, <<2, "italic">>,
         <<2, "underline">>, <<3, "link">>, <<2, "inserted">>,
         <<2, "deleted">>, <<2, "quote">>, <<2, "raw">>, <<3, "inline">>,
         <<3, "block">>, <<2, "other">>,
       <<1, "meta">>, <<2, "class">>, <<2, "struct">>, <<2, "enum">>,
         <<2, "union">>, <<2, "trait">>, <<2, "interface">>, <<2, "impl">>,
         <<2, "type">>, <<2, "function">>, <<3, "parameters">>,
         <<3, "return-type">>, <<2, "namespace">>, <<2, "preprocessor">>,
         <<2, "annotation">>, <<3, "identifier">>, <<3, "parameters">>,
         <<2, "path">>, <<2, "function-call">>, <<2, "block">>,
         <<2, "braces">>, <<2, "group">>, <<2, "parens">>, <<2, "brackets">>,
         <<2, "generic">>, <<2, "tag">>, <<2, "paragraph">>,
         <<2, "toc-list">>, <<2, "string">>, <<2, "interpolation">>,
         <<2, "sequence">>, <<2, "mapping">>, <<3, "key">>, <<3, "value">>,
         <<2, "set">>,
       <<1, "punctuation">>, <<2, "definition">>, <<3, "annotation">>,
         <<4, "begin">>, <<4, "end">>, <<3, "string">>, <<4, "begin">>,
         <<4, "end">>, <<3, "comment">>, <<4, "begin">>, <<4, "end">>,
         <<3, "keyword">>, <<4, "begin">>, <<4, "end">>, <<3, "generic">>,
         <<4, "begin">>, <<4, "end">>, <<3, "placeholder">>, <<4, "begin">>,
         <<4, "end">>, <<3, "variable">>, <<4, "begin">>, <<4, "end">>,
         <<2, "section">>, <<3, "block">>, <<4, "begin">>, <<4, "end">>,
         <<3, "braces">>, <<4, "begin">>, <<4, "end">>, <<3, "group">>,
         <<4, "begin">>, <<4, "end">>, <<3, "parens">>, <<4, "begin">>,
         <<4, "end">>, <<3, "brackets">>, <<4, "begin">>, <<4, "end">>,
         <<3, "sequence">>, <<4, "begin">>, <<4, "end">>, <<3, "mapping">>,
         <<4, "begin">>, <<4, "end">>, <<3, "set">>, <<4, "begin">>,
         <<4, "end">>, <<2, "separator">>, <<3, "continuation">>,
         <<3, "sequence">>, <<3, "mapping">>, <<4, "key-value">>,
         <<4, "pair">>, <<3, "decimal">>, <<2, "terminator">>,
         <<2, "accessor">>, <<3, "arrow">>, <<3, "dot">>,
         <<3, "double-colon">>, <<3, "fat-arrow">>, <<3, "colon">>,
         <<3, "backslash">>,
       <<1, "storage">>, <<2, "type">>, <<3, "function">>, <<3, "class">>,
         <<3, "struct">>, <<3, "enum">>, <<3, "union">>, <<3, "trait">>,
         <<3, "interface">>, <<3, "impl">>, <<2, "modifier">>,
       <<1, "string">>, <<2, "quoted">>, <<3, "single">>, <<3, "double">>,
         <<3, "triple">>, <<3, "other">>, <<2, "unquoted">>, <<2, "regexp">>,
         <<2, "interpolated">>, <<2, "other">>,
       <<1, "support">>, <<2, "constant">>, <<2, "function">>,
         <<2, "module">>, <<2, "type">>, <<2, "class">>, <<2, "other">>,
       <<1, "variable">>, <<2, "language">>, <<2, "parameter">>,
         <<2, "function">>, <<2, "annotation">>, <<2, "other">>,
         <<3, "constant">>, <<3, "member">>, <<3, "readwrite">> >>

\* the trie built from DATA: a node is the index of its line, a NodeSet is
\* the sequence of its nodes in the order of their lines
NodeDepth(node) == DATA[node][1]
NodeName(node) == DATA[node][2]

AllNodes == [i \in 1..Len(DATA) |-> i]

\* the top-level nodes
COMPILED_HEADS == SelectSeq(AllNodes, LAMBDA n : NodeDepth(n) = 1)

\* node.children: the lines one level deeper, up to the next line that is
\* not deeper than the node
NodeChildren(node) ==
    SelectSeq(AllNodes,
              LAMBDA n : /\ n > node
                         /\ NodeDepth(n) = NodeDepth(node) + 1
                         /\ \A m \in (node + 1)..n : NodeDepth(m) > NodeDepth(node))

\* NodeSet.find(name): the node of that name, or None
NodeSetFind(nodes, token) ==
    LET found == SelectSeq(nodes, LAMBDA n : <<NodeName(n)>> = token)
    IN  IF found = <<>> THEN None ELSE Some(found[1])

\* NodeSet.to_completion(): one completion for each node
NodeSetToCompletion(nodes) ==
    [i \in 1..Len(nodes) |->
        [trigger |-> <<NodeName(nodes[i])>>, annotation |-> "convention"]]

-----------------------------------------------------------------------------
\* SyntaxDefCompletionsListener

\* string.rpartition(sep)[2]: what follows the last separator
AfterLast(text, sep) ==
    LET parts == Split(text, sep) IN parts[Len(parts)]

\* mutant: the suffix is offered whatever the last token is
complete_base_scope_always(last_token, rgns) ==
    IF Len(rgns) # 1
    THEN [raised |-> TRUE]
    ELSE LET suffix == AfterLast(rgns[1], ".") IN
         [raised |-> FALSE,
          completions |-> <<[trigger |-> suffix, annotation |-> "base suffix"]>>,
          base_suffix |-> Some(suffix)]

\* _complete_base_scope(last_token): the completions it returns and the
\* base_suffix it leaves in the listener.  With other than one region it
\* calls status(msg, window, console=True), which hands `console` to
\* status(msg, console=False) twice: the call raises TypeError before any
\* message is shown and before base_suffix is assigned.
complete_base_scope(last_token, rgns) ==
    IF Len(rgns) # 1
    THEN [raised |-> TRUE]
    ELSE LET suffix == AfterLast(rgns[1], ".") IN
         IF last_token = suffix
         THEN [raised |-> FALSE, completions |-> <<>>, base_suffix |-> None]
         ELSE [raised |-> FALSE,
               completions |-> <<[trigger |-> suffix, annotation |-> "base suffix"]>>,
               base_suffix |-> Some(suffix)]

\* the loop of _complete_scope over tokens[:-1] from its i-th token on:
\* whether it ran to its end (the else branch), the nodes reached and the
\* status shown
RECURSIVE Browse(_, _, _)
Browse(nodes, tokens, i) ==
    IF i > Len(tokens) - 1
    THEN [finished |-> TRUE, nodes |-> nodes, statuses |-> <<>>]
    ELSE LET node == NodeSetFind(nodes, tokens[i]) IN
         IF node = None
         THEN [finished |-> FALSE, nodes |-> nodes,
               statuses |-> <<[msg |-> "not found in scope naming conventions",
                               scope |-> Join(SubSeq(tokens, 1, i), <<".">>)]>>]
         ELSE LET children == NodeChildren(node.some) IN
              IF children = <<>>
              THEN [finished |-> FALSE, nodes |-> children,
                    statuses |->
                        <<[msg |-> "No nodes available in scope naming conventions after",
                           scope |-> Join(SubSeq(tokens, 1, Len(tokens) - 1), <<".">>)]>>]
              ELSE Browse(children, tokens, i + 1)

\* mutant: an unmatched segment ends the loop as if it had run to its end,
\* so that the children of the deepest node reached are offered
browse_offer_deepest(tokens) ==
    [Browse(COMPILED_HEADS, tokens, 1) EXCEPT !.finished = TRUE]

\* `nodes = COMPILED_HEADS`, then the loop
browse(tokens) == Browse(COMPILED_HEADS, tokens, 1)

\* the query ended with an exception (a TypeError) instead of a value
Raised == [raised |-> "TypeError"]

\* _complete_scope(prefix, locations), given the line prefix of every
\* location: the value it returns, the base_suffix it leaves in the listener
\* and the status messages it shows
complete_scope(line_prefixes, rgns, suffix_before) ==
    LET prefixes == {AfterLast(line_prefixes[i], " ") : i \in 1..Len(line_prefixes)}
    IN  IF Cardinality(prefixes) > 1
        THEN [result |-> None, base_suffix |-> suffix_before, statuses |-> <<>>]
        ELSE LET real_prefix == CHOOSE p \in prefixes : TRUE
                 tokens == Split(real_prefix, ".")
             IN  IF Len(tokens) <= 1
                 THEN [result |-> Some(NodeSetToCompletion(COMPILED_HEADS)),
                       base_suffix |-> suffix_before, statuses |-> <<>>]
                 ELSE LET base == complete_base_scope(tokens[Len(tokens)], rgns)
                          walk == browse(tokens)
                      IN  IF base.raised
                          THEN [result |-> Raised, base_suffix |-> suffix_before,
                                statuses |-> <<>>]
                          ELSE [result |->
                                   IF walk.finished
                                   THEN Some(NodeSetToCompletion(walk.nodes)
                                             \o base.completions)
                                   ELSE Some(base.completions),
                                base_suffix |-> base.base_suffix,
                                statuses |-> walk.statuses]

-----------------------------------------------------------------------------
\* A syntax definition view: the user types a scope after `scope: `, edits
\* the scope of the header, and asks for completions.

\* the pieces of text the user types
TypedAtoms == {".", "comment", "block", "string", "regexp"}

\* what the selector "meta.scope string - meta.block" can find in the view
RegionChoices ==
    { <<>>,
      << <<"source", ".", "regexp">> >>,
      << <<"source", ".", "python">> >>,
      << <<"source", ".", "regexp">>, <<"source", ".", "python">> >> }

\* the text before the typed scope on the line of the first caret
Lead == <<" ", " ", "scope:", " ">>

\* the text before the typed scope on the lines of the further carets: no
\* further caret, one after the same text, one after another scope
CaretChoices ==
    { <<>>,
      << <<" ", " ", "-", " ", "meta_scope:", " ">> >>,
      << <<" ", " ", "-", " ", "meta_scope:", " ", "string", ".">> >> }

\* the line prefix of every location
LinePrefixes ==
    <<Lead \o typed>> \o [i \in 1..Len(carets) |-> carets[i] \o typed]

\* no completion query has been answered for the text as it stands
NoQuery == [noquery |-> TRUE]

InitScope ==
    /\ regions \in RegionChoices
    /\ carets \in CaretChoices
    /\ typed = <<>>
    /\ base_suffix = None
    /\ result = NoQuery
    /\ statuses = <<>>
    /\ IdleKnownSettings
    /\ comments = <<>>
    /\ IdleParse
    /\ IdleValue
    /\ IdleReload
    /\ IdleCommit

\* the user types one more piece of the scope
TypeAtom ==
    /\ Len(typed) < MaxTyped
    /\ \E atom \in TypedAtoms :
          /\ typed # <<>> /\ typed[Len(typed)] # "." => atom = "."
          /\ typed' = Append(typed, atom)
    /\ result' = NoQuery
    /\ statuses' = <<>>
    /\ UNCHANGED <<regions, carets, base_suffix>>
    /\ commands' = <<>>
    /\ UNCHANGED after
    /\ UNCHANGED <<kbvars, psvars, vcvars, rlvars>>

\* the user deletes the last piece
DeleteAtom ==
    /\ typed # <<>>
    /\ typed' = SubSeq(typed, 1, Len(typed) - 1)
    /\ result' = NoQuery
    /\ statuses' = <<>>
    /\ UNCHANGED <<regions, carets, base_suffix>>
    /\ commands' = <<>>
    /\ UNCHANGED after
    /\ UNCHANGED <<kbvars, psvars, vcvars, rlvars>>

\* the user edits the header, changing what the base scope selector finds
EditBaseScope ==
    /\ \E rgns \in RegionChoices \ {regions} : regions' = rgns
    /\ result' = NoQuery
    /\ statuses' = <<>>
    /\ UNCHANGED <<typed, carets, base_suffix>>
    /\ commands' = <<>>
    /\ UNCHANGED after
    /\ UNCHANGED <<kbvars, psvars, vcvars, rlvars>>

\* on_query_completions at a scope: _complete_scope
QueryScope ==
    /\ LET out == complete_scope(LinePrefixes, regions, base_suffix)
       IN  /\ result' = out.result
           /\ base_suffix' = out.base_suffix
           /\ statuses' = out.statuses
    /\ UNCHANGED <<regions, typed, carets>>
    /\ commands' = <<>>
    /\ UNCHANGED after
    /\ UNCHANGED <<kbvars, psvars, vcvars, rlvars>>

NextScope ==
    \/ TypeAtom
    \/ DeleteAtom
    \/ EditBaseScope
    \/ QueryScope

SpecScope == InitScope /\ [][NextScope]_vars

-----------------------------------------------------------------------------
\* Properties of the scope completions (specification SpecScope)

\* the line of DATA above line i that is one level less deep
ParentLine(i) ==
    CHOOSE j \in 1..(i - 1) :
        /\ DATA[j][1] = DATA[i][1] - 1
        /\ \A m \in (j + 1)..(i - 1) : DATA[m][1] >= DATA[i][1]

\* the scope a line of DATA stands for, as its segments
RECURSIVE ScopeOfLine(_)
ScopeOfLine(i) ==
    IF DATA[i][1] = 1 THEN << <<DATA[i][2]>> >>
    ELSE Append(ScopeOfLine(ParentLine(i)), <<DATA[i][2]>>)

ConventionScopes == [i \in 1..Len(DATA) |-> ScopeOfLine(i)]

\* the scope is one of the naming conventions
IsConvention(scope) ==
    \E i \in 1..Len(DATA) : ConventionScopes[i] = scope

\* the completions for the scopes of the conventions one segment longer than
\* `scope`, in the order of DATA
ConventionsBelow(scope) ==
    LET below == SelectSeq([i \in 1..Len(DATA) |-> i],
                           LAMBDA i : /\ DATA[i][1] = Len(scope) + 1
                                      /\ SubSeq(ConventionScopes[i], 1, Len(scope)) = scope)
    IN  [n \in 1..Len(below) |->
            [trigger |-> <<DATA[below[n]][2]>>, annotation |-> "convention"]]

\* every caret follows the same text: the typed scope
OneScope == \A i \in 1..Len(carets) : carets[i][Len(carets[i])] = " "

Segments == Split(typed, ".")

\* the segments before the last dot
Before == SubSeq(Segments, 1, Len(Segments) - 1)

\* how many of the segments before the last dot match, each a child of the
\* node the ones before it lead to
MatchedCount ==
    CHOOSE m \in 0..Len(Before) :
        /\ \A k \in 1..m : IsConvention(SubSeq(Before, 1, k))
        /\ m < Len(Before) => ~IsConvention(SubSeq(Before, 1, m + 1))

IsBaseItem(item) == item.annotation = "base suffix"

BaseItems(items) == SelectSeq(items, IsBaseItem)

\* the suffix of the base scope, when exactly one region declares it
Suffix == AfterLast(regions[1], ".")

\* the last query returned a list of completions
Returned == result \notin {NoQuery, None, Raised}

Offered == Returned /\ BaseItems(result.some) # <<>>

\* C7 (as claimed): a scope without a dot is completed with the heads of the
\* conventions; a scope whose segments before the last dot are a scope of the
\* conventions is completed with the conventions one segment below it
\* followed by the base suffix completion (at most one), which is all there
\* is when nothing lies below.  Whatever the number of regions declaring the
\* base scope: the claim does not restrict it.
C7_ScopeCompletions ==
    (result # NoQuery /\ OneScope) =>
        IF Len(Segments) = 1
        THEN result = Some(ConventionsBelow(<<>>))
        ELSE IsConvention(Before) =>
                /\ Returned
                /\ Len(BaseItems(result.some)) <= 1
                /\ result.some = ConventionsBelow(Before) \o BaseItems(result.some)

\* C8 (as claimed): when a segment matches no child of the node reached so
\* far, the completions from the conventions are the children of the deepest
\* node reached (stated for a view with one region declaring the base scope).
C8_UnmatchedOffersDeepest ==
    (result # NoQuery /\ OneScope /\ Len(Segments) > 1 /\ Len(regions) = 1
       /\ MatchedCount >= 1 /\ MatchedCount < Len(Before)) =>
        /\ Returned
        /\ SelectSeq(result.some, LAMBDA item : ~IsBaseItem(item))
              = ConventionsBelow(SubSeq(Before, 1, MatchedCount))

\* C8 (amended): when a segment matches no child of the node reached so far,
\* no completion from the conventions is offered.  With one region declaring
\* the base scope the completions returned are the base suffix completion
\* alone, or nothing when the text after the last dot is the suffix; with
\* another number of regions the query raises and returns nothing.
C8_UnmatchedOffersBaseOnly ==
    (result # NoQuery /\ OneScope /\ Len(Segments) > 1
       /\ MatchedCount < Len(Before)) =>
        IF Len(regions) # 1 THEN result = Raised
        ELSE result =
               Some(IF Segments[Len(Segments)] = Suffix THEN <<>>
                    ELSE << [trigger |-> Suffix, annotation |-> "base suffix"] >>)

\* `comment.string.` in a syntax of scope source.python: `string` is no child
\* of `comment`; only the base suffix is offered
C8_Witness ==
    /\ typed = <<"comment", ".", "string", ".">>
    /\ result = Some(<< [trigger |-> <<"python">>, annotation |-> "base suffix"] >>)
    /\ statuses = << [msg |-> "not found in scope naming conventions",
                      scope |-> <<"comment", ".", "string">>] >>

\* C9 (as claimed): with the base scope determined, the suffix is offered
\* exactly when the last matched segment of the typed scope differs from it.
C9_SuffixWhenLastMatchedDiffers ==
    (result # NoQuery /\ OneScope /\ Len(regions) = 1 /\ MatchedCount >= 1) =>
        (Offered <=> Before[MatchedCount] # Suffix)

\* C9 (amended): the suffix is offered exactly when the typed scope, the same
\* at every caret, has a dot in it, one region declares the base scope, and
\* the text after the last dot of the typed scope differs from the suffix; it
\* is then the last completion.
C9_SuffixWhenLastTokenDiffers ==
    result # NoQuery =>
        /\ Offered <=> /\ OneScope
                       /\ Len(Segments) > 1
                       /\ Len(regions) = 1
                       /\ Segments[Len(Segments)] # Suffix
        /\ Offered =>
              /\ BaseItems(result.some)
                    = << [trigger |-> Suffix, annotation |-> "base suffix"] >>
              /\ IsBaseItem(result.some[Len(result.some)])

\* `string.regexp.` in a syntax of scope source.regexp: the last matched
\* segment is the suffix, and the suffix is offered
C9_Witness ==
    /\ typed = <<"string", ".", "regexp", ".">>
    /\ regions = << <<"source", ".", "regexp">> >>
    /\ result = Some(<< [trigger |-> <<"regexp">>, annotation |-> "base suffix"] >>)

\* C10 (as claimed): when the regions declaring the base scope are not
\* exactly one, a query of a scope with a dot leaves base_suffix None, shows
\* the warning and does not fail: it returns completions, none for the
\* suffix, and those of the conventions below the typed scope.
C10_AmbiguousBaseScope ==
    (result # NoQuery /\ OneScope /\ Len(Segments) > 1 /\ Len(regions) # 1) =>
        /\ base_suffix = None
        /\ statuses # <<>>
        /\ statuses[1] = [msg |-> "Warning: Could not determine base scope uniquely"]
        /\ Returned
        /\ BaseItems(result.some) = <<>>
        /\ IsConvention(Before) => result.some = ConventionsBelow(Before)

-----------------------------------------------------------------------------
\* Value completions of KnownSettings (src/settings.py)

\* decimal digits of any script, with single underscores between them
DigitGroup(s) ==
    /\ s # <<>>
    /\ \A i \in 1..Len(s) : s[i] = "_" \/ isdecimal(s[i])
    /\ s[1] # "_" /\ s[Len(s)] # "_"
    /\ \A i \in 1..(Len(s) - 1) : ~(s[i] = "_" /\ s[i + 1] = "_")

\* str(n) for an integer
RECURSIVE NatStr(_)
NatStr(n) ==
    (IF n < 10 THEN <<>> ELSE NatStr(n \div 10)) \o <<Printable[17 + (n % 10)]>>

IntStr(n) == IF n < 0 THEN <<"-">> \o NatStr(0 - n) ELSE NatStr(n)

\* a numeral after the whitespace around it is skipped, as a sign and the
\* rest
SignOf(s) ==
    IF s # <<>> /\ s[1] \in {"+", "-"}
    THEN [neg |-> s[1] = "-", body |-> Tail(s)]
    ELSE [neg |-> FALSE, body |-> s]

Signed(string) == SignOf(Stripped(string, NumeralSpace))

\* the digits of a part of a numeral as the digits 0 to 9, without its
\* underscores
PlainOf(digits) ==
    [i \in 1..Len(digits) |-> Printable[17 + DecimalValue(digits[i])]]

Plain(part) == PlainOf(SelectSeq(part, LAMBDA c : c # "_"))

\* int(string): a sign and digits with single underscores between them,
\* whitespace around them; else ValueError (ok = FALSE)
Negated(neg, n) == IF neg THEN 0 - n ELSE n

IntOf(s) ==
    IF DigitGroup(s.body)
    THEN [ok |-> TRUE,
          val |-> [t |-> "int",
                   v |-> Negated(s.neg, ParseDigits(Plain(s.body), 1, 0).val)]]
    ELSE Fail

int(string) == IntOf(Signed(string))

\* the letters A to Z of a string in lower case
AsciiLowerOf(c, upper) == IF upper = {} THEN c ELSE LowerCase[CHOOSE k \in upper : TRUE]

AsciiLower(s) ==
    [i \in 1..Len(s) |-> AsciiLowerOf(s[i], {k \in 1..26 : UpperCase[k] = s[i]})]

\* float(string): a sign, then inf, infinity or nan in any case, or digits
\* with a point anywhere among them and an exponent, whitespace around
\* them; else ValueError (ok = FALSE)

\* the float of the parts of a numeral: the digits before and after the
\* point, and the exponent with its sign, None for none
FloatOfParts(neg, intd, fracd, power) ==
    IF /\ intd = <<>> \/ DigitGroup(intd)
       /\ fracd = <<>> \/ DigitGroup(fracd)
       /\ intd # <<>> \/ fracd # <<>>
       /\ power = None \/ DigitGroup(power.some.body)
    THEN [ok |-> TRUE,
          val |-> [t |-> "float",
                   v |-> MakeFloat(neg, Plain(intd), Plain(fracd),
                                   IF power = None THEN 0
                                   ELSE Negated(power.some.neg,
                                                ExponentValue(
                                                    Plain(power.some.body))))]]
    ELSE Fail

\* the same of the text before the exponent, split at its points
FloatOfSplit(neg, parts, power) ==
    IF Len(parts) > 2 THEN Fail
    ELSE FloatOfParts(neg, parts[1], IF Len(parts) = 2 THEN parts[2] ELSE <<>>,
                      power)

\* the same of a numeral whose first exponent letter is at `at`,
\* Len(body) + 1 for none
FloatAt(neg, body, at) ==
    FloatOfSplit(neg, Split(SubSeq(body, 1, at - 1), "."),
                 IF at > Len(body) THEN None ELSE Some(SignOf(Drop(body, at))))

FloatOfWord(s, word, marks) ==
    IF word \in {<<"i", "n", "f">>, <<"i", "n", "f", "i", "n", "i", "t", "y">>}
    THEN [ok |-> TRUE, val |-> [t |-> "float", v |-> Infinity(s.neg)]]
    ELSE IF word = <<"n", "a", "n">>
    THEN [ok |-> TRUE, val |-> [t |-> "float", v |-> NaN]]
    ELSE FloatAt(s.neg, s.body,
                 IF marks = {} THEN Len(s.body) + 1
                 ELSE CHOOSE i \in marks : \A j \in marks : i <= j)

FloatOfSigned(s) ==
    FloatOfWord(s, AsciiLower(s.body),
                {i \in 1..Len(s.body) : s.body[i] \in {"e", "E"}})

float(string) == FloatOfSigned(Signed(string))

\* the module's decode_value(string): true and false in any case, then
\* int(string), then float(string), else ValueError
Decoded3(word, whole, string) ==
    IF word = <<"t", "r", "u", "e">>
    THEN [ok |-> TRUE, val |-> [t |-> "bool", v |-> TRUE]]
    ELSE IF word = <<"f", "a", "l", "s", "e">>
    THEN [ok |-> TRUE, val |-> [t |-> "bool", v |-> FALSE]]
    ELSE IF whole.ok THEN whole
    ELSE float(string)

module_decode_value(string) == Decoded3(lower(string), int(string), string)

\* type(value).__name__
TypeName(value) ==
    CASE value.t = "null" -> <<"N", "o", "n", "e", "T", "y", "p", "e">>
      [] value.t = "bool" -> <<"b", "o", "o", "l">>
      [] value.t = "int" -> <<"i", "n", "t">>
      [] value.t = "float" -> <<"f", "l", "o", "a", "t">>
      [] value.t = "str" -> <<"s", "t", "r">>
      [] value.t = "list" -> <<"l", "i", "s", "t">>
      [] value.t = "dict" -> <<"d", "i", "c", "t">>

\* n zeros
Zeros(n) == [i \in 1..n |-> "0"]

\* repr(x) for a float
FloatStr(f) ==
    IF f.kind = "nan" THEN <<"n", "a", "n">>
    ELSE (IF f.neg THEN <<"-">> ELSE <<>>) \o
         (IF f.kind = "inf" THEN <<"i", "n", "f">>
          ELSE IF f.digits = <<>> THEN <<"0", ".", "0">>
          ELSE IF f.point > 16 \/ f.point < -3
          THEN LET e == IF f.point < 1 THEN 1 - f.point ELSE f.point - 1
               IN  <<Head(f.digits)>>
                   \o (IF Len(f.digits) > 1 THEN <<".">> \o Tail(f.digits) ELSE <<>>)
                   \o <<"e", IF f.point < 1 THEN "-" ELSE "+">>
                   \o (IF e < 10 THEN <<"0">> ELSE <<>>) \o NatStr(e)
          ELSE IF f.point <= 0
          THEN <<"0", ".">> \o Zeros(0 - f.point) \o f.digits
          ELSE IF f.point < Len(f.digits)
          THEN SubSeq(f.digits, 1, f.point) \o <<".">>
               \o SubSeq(f.digits, f.point + 1, Len(f.digits))
          ELSE f.digits \o Zeros(f.point - Len(f.digits)) \o <<".", "0">>)

\* the digits of n in `width` hexadecimal digits
HexDigits(n, width) ==
    [i \in 1..width |-> Hex[((n \div (16 ^ (width - i))) % 16) + 1]]

\* the escape repr() writes for a character that is not printable
Escape(n) ==
    <<"\\", IF n < 256 THEN "x" ELSE IF n < 65536 THEN "u" ELSE "U">>
    \o HexDigits(n, IF n < 256 THEN 2 ELSE IF n < 65536 THEN 4 ELSE 8)

\* a character as repr() writes it, n its code point
EscapePoint(c, n) == IF RangeOf(n, NonPrintable) = 0 THEN <<c>> ELSE Escape(n)

\* the characters of repr(text) between its quotation marks
RECURSIVE EscapeRepr(_, _)
EscapeRepr(text, quote) ==
    IF text = <<>> THEN <<>>
    ELSE (CASE Head(text) \in {"\\", quote} -> <<"\\", Head(text)>>
            [] Head(text) = "\n" -> <<"\\", "n">>
            [] Head(text) = "\t" -> <<"\\", "t">>
            [] Head(text) = "\r" -> <<"\\", "r">>
            [] OTHER -> EscapePoint(Head(text), ord(Head(text))))
         \o EscapeRepr(Tail(text), quote)

\* repr(value): a string in single quotation marks, or in double ones when
\* it has single ones only
RECURSIVE Repr(_)
Repr(value) ==
    CASE value.t = "null" -> <<"N", "o", "n", "e">>
      [] value.t = "bool" ->
            IF value.v THEN <<"T", "r", "u", "e">> ELSE <<"F", "a", "l", "s", "e">>
      [] value.t = "int" -> IntStr(value.v)
      [] value.t = "float" -> FloatStr(value.v)
      [] value.t = "str" ->
            LET quote == IF /\ \E i \in 1..Len(value.v) : value.v[i] = "'"
                            /\ \A i \in 1..Len(value.v) : value.v[i] # "\""
                         THEN "\"" ELSE "'"
            IN  <<quote>> \o EscapeRepr(value.v, quote) \o <<quote>>
      [] value.t = "list" ->
            <<"[">> \o Join([n \in 1..Len(value.v) |-> Repr(value.v[n])],
                            <<",", " ">>) \o <<"]">>
      [] value.t = "dict" ->
            <<"{">> \o Join([n \in 1..Len(value.k) |->
                                Repr([t |-> "str", v |-> value.k[n]]) \o <<":", " ">>
                                \o Repr(value.v[value.k[n]])],
                            <<",", " ">>) \o <<"}">>

\* '{0}'.format(value), which is str(value): a string as it is, any other
\* value as its repr
Str(value) == IF value.t = "str" THEN value.v ELSE Repr(value)

\* format_completion_item(value): ("{value}  \t{type}", value)
format_completion_item(value) ==
    [trigger |-> Str(value) \o <<" ", " ", "\t">> \o TypeName(value),
     value |-> value]

\* hash(item) succeeds: a tuple hashes its members, a list or dict has no hash
Hashable(item) == item.value.t \notin {"list", "dict"}

\* the matches of re.finditer(r"`([^`\n]+)`", comment) from position i on
RECURSIVE BacktickMatches(_, _)
BacktickMatches(c, i) ==
    IF i > Len(c) THEN <<>>
    ELSE IF c[i] # BackTick THEN BacktickMatches(c, i + 1)
    ELSE LET stops == {j \in (i + 1)..Len(c) : c[j] \in {BackTick, "\n"}} IN
         IF stops = {} THEN BacktickMatches(c, i + 1)
         ELSE LET j == CHOOSE x \in stops : \A y \in stops : x <= y IN
              IF c[j] = BackTick /\ j > i + 1
              THEN <<SubSeq(c, i + 1, j - 1)>> \o BacktickMatches(c, j + 1)
              ELSE BacktickMatches(c, i + 1)

\* the matches of re.finditer(r'"([\.\w]+)"', comment) from position i on
RECURSIVE QuotedMatches(_, _)
QuotedMatches(c, i) ==
    IF i > Len(c) THEN <<>>
    ELSE IF c[i] # "\"" THEN QuotedMatches(c, i + 1)
    ELSE LET stops == {j \in (i + 1)..Len(c) : c[j] # "." /\ ~WordChar(c[j])} IN
         IF stops = {} THEN QuotedMatches(c, i + 1)
         ELSE LET j == CHOOSE x \in stops : \A y \in stops : x <= y IN
              IF c[j] = "\"" /\ j > i + 1
              THEN <<SubSeq(c, i + 1, j - 1)>> \o QuotedMatches(c, j + 1)
              ELSE QuotedMatches(c, i + 1)

\* `try: value = decode(text) except ValueError: value = text`
DecodedOrText(decoded, text) ==
    IF decoded.ok THEN decoded.val ELSE [t |-> "str", v |-> text]

\* the items of a decoded match: one per member of a list, else one
ValueItems(value) ==
    IF value.t = "list"
    THEN {format_completion_item(value.v[n]) : n \in 1..Len(value.v)}
    ELSE {format_completion_item(value)}

\* the candidates one backtick match adds to the set
BacktickItems(text) == ValueItems(DecodedOrText(decode_value(text), text))

\* the candidate one quoted match adds to the set
QuotedItem(text) ==
    format_completion_item(DecodedOrText(module_decode_value(text), text))

\* the item of the n-th quoted match as a member of the set: the NaN of each
\* call of float is an object of its own, and so is its item
Identified(item, n) ==
    IF item.value.t = "float" /\ item.value.v.kind = "nan"
    THEN [item EXCEPT !.value.v.id = n]
    ELSE item

\* the set _completions_from_comment builds from the items of the backtick
\* matches and from the quoted matches
CommentItems(fromTicks, quoted) ==
    IF \E item \in fromTicks : ~Hashable(item) THEN Raised
    ELSE Some(fromTicks
              \cup {Identified(QuotedItem(quoted[n]), n) : n \in 1..Len(quoted)})

\* the items of all the backtick matches
TickItems(ticks) == UNION {BacktickItems(ticks[n]) : n \in 1..Len(ticks)}

\* _completions_from_comment(key): None, a set of items, or the TypeError of
\* putting an item without a hash into the set
completions_from_comment(cm, key) ==
    IF key \notin DOMAIN cm \/ cm[key] = <<>> THEN None
    ELSE CommentItems(TickItems(BacktickMatches(cm[key], 1)),
                      QuotedMatches(cm[key], 1))

\* the items _completions_from_default makes of a default that is not null
DefaultItems(default) ==
    IF default.t = "bool"
    THEN {format_completion_item([t |-> "bool", v |-> FALSE]),
          format_completion_item([t |-> "bool", v |-> TRUE])}
    ELSE IF default.t = "list"
    THEN {format_completion_item(default.v[n]) : n \in 1..Len(default.v)}
    ELSE {format_completion_item(default)}

\* set(items): the set, or the TypeError of an item without a hash
HashableItems(items) ==
    IF \E item \in items : ~Hashable(item) THEN Raised ELSE Some(items)

\* _completions_from_default(key)
completions_from_default(d, key) ==
    IF key \notin DOMAIN d \/ d[key].t = "null" THEN None
    ELSE HashableItems(DefaultItems(d[key]))

\* `hide in path` for strings
Contains(text, sub) ==
    \E i \in 0..(Len(text) - Len(sub)) : SubSeq(text, i + 1, i + Len(sub)) = sub

\* _color_scheme_completions(), given what find_resources("*.tmTheme")
\* returns and the patterns of settings.exclude_color_scheme_patterns
color_scheme_completions(paths, hidden) ==
    {[trigger |-> LET parts == Split(paths[n], "/")
                  IN  parts[Len(parts)] \o <<" ", " ", "\t">> \o parts[2],
      value |-> [t |-> "str", v |-> paths[n]]] :
        n \in {m \in 1..Len(paths) :
                 ~\E h \in 1..Len(hidden) : Contains(paths[m], hidden[h])}}

\* _theme_completions(), given what find_resources("*.sublime-theme")
\* returns and the patterns of settings.exclude_theme_patterns
theme_completions(paths, hidden) ==
    LET names == [n \in 1..Len(paths) |->
                    LET parts == Split(paths[n], "/") IN parts[Len(parts)]]
    IN  {[trigger |-> names[n] \o <<" ", " ", "\t", "t", "h", "e", "m", "e">>,
          value |-> [t |-> "str", v |-> names[n]]] :
            n \in {m \in 1..Len(names) :
                     ~\E h \in 1..Len(hidden) : Contains(names[m], hidden[h])}}

\*   color_scheme
KeyColorScheme ==
    <<"c", "o", "l", "o", "r", "_", "s", "c", "h", "e", "m", "e">>

\*   theme
KeyTheme ==
    <<"t", "h", "e", "m", "e">>

\* `self._completions_from_comment(key) or self._completions_from_default(key)`
CommentOrDefault(fromComment, d, key) ==
    IF fromComment \in {None, Some({})}
    THEN completions_from_default(d, key)
    ELSE fromComment

\* _value_completions_for(key): None, a set of items, or the exception that
\* leaves it; `host` is what the host's resources and settings say
value_completions_for(d, cm, key, host) ==
    IF key = KeyColorScheme
    THEN Some(color_scheme_completions(host.schemes, host.hidden))
    ELSE IF key = KeyTheme
    THEN Some(theme_completions(host.themes, host.hidden))
    ELSE CommentOrDefault(completions_from_comment(cm, key), d, key)

\* sublime.encode_value(value): the JSON text of the value, in the layout of
\* json.dumps, which escapes every character but those from the blank to
\* the tilde, the ones beyond U+FFFF as the two of a surrogate pair
EscapeUnits(units) ==
    [i \in 1..(6 * Len(units)) |->
        IF i % 6 = 1 THEN "\\"
        ELSE IF i % 6 = 2 THEN "u"
        ELSE HexDigits(units[(i + 5) \div 6], 4)[((i + 3) % 6) + 1]]

EscapeUnicode(n) ==
    EscapeUnits(IF n < 65536 THEN <<n>>
                ELSE <<55296 + ((n - 65536) \div 1024),
                       56320 + ((n - 65536) % 1024)>>)

EscapeAscii(c, n) == IF n >= 32 /\ n <= 126 THEN <<c>> ELSE EscapeUnicode(n)

RECURSIVE EscapeJson(_)
EscapeJson(text) ==
    IF text = <<>> THEN <<>>
    ELSE (CASE Head(text) \in {"\"", "\\"} -> <<"\\", Head(text)>>
            [] Head(text) = "\n" -> <<"\\", "n">>
            [] Head(text) = "\t" -> <<"\\", "t">>
            [] Head(text) = "\r" -> <<"\\", "r">>
            [] Head(text) = "\f" -> <<"\\", "f">>
            [] Head(text) = "\\x08" -> <<"\\", "b">>
            [] OTHER -> EscapeAscii(Head(text), ord(Head(text))))
         \o EscapeJson(Tail(text))

RECURSIVE encode_value(_)
encode_value(value) ==
    CASE value.t = "null" -> <<"n", "u", "l", "l">>
      [] value.t = "bool" ->
            IF value.v THEN <<"t", "r", "u", "e">> ELSE <<"f", "a", "l", "s", "e">>
      [] value.t = "int" -> IntStr(value.v)
      [] value.t = "float" ->
            IF value.v.kind = "nan" THEN <<"N", "a", "N">>
            ELSE IF value.v.kind = "inf"
            THEN (IF value.v.neg THEN <<"-">> ELSE <<>>)
                 \o <<"I", "n", "f", "i", "n", "i", "t", "y">>
            ELSE FloatStr(value.v)
      [] value.t = "str" -> <<"\"">> \o EscapeJson(value.v) \o <<"\"">>
      [] value.t = "list" ->
            <<"[">> \o Join([n \in 1..Len(value.v) |-> encode_value(value.v[n])],
                            <<",", " ">>) \o <<"]">>
      [] value.t = "dict" ->
            <<"{">> \o Join([n \in 1..Len(value.k) |->
                                <<"\"">> \o EscapeJson(value.k[n]) \o <<"\"", ":", " ">>
                                \o encode_value(value.v[value.k[n]])],
                            <<",", " ">>) \o <<"}">>

\* sorted(completions, key=...) for the keys given: the entries by their
\* keys, those with equal keys in the order they came in
SortedBy(completions, keys) ==
    LET n == Len(completions)
        Precedes(j, i) == \/ StrLess(keys[j], keys[i])
                          \/ ~StrLess(keys[i], keys[j]) /\ j < i
        place == [i \in 1..n |-> 1 + Cardinality({j \in 1..n : Precedes(j, i)})]
    IN  [p \in 1..n |-> completions[CHOOSE i \in 1..n : place[i] = p]]

\* sorted_completions(completions): the list sorted by the lowered trigger
sorted_completions(completions) ==
    SortedBy(completions,
             [i \in 1..Len(completions) |-> lower(completions[i][1])])

\* text[offset:]
SliceFrom(text, offset) ==
    IF offset >= 0 THEN Drop(text, offset)
    ELSE IF 0 - offset >= Len(text) THEN text
    ELSE SubSeq(text, Len(text) + offset + 1, Len(text))

\* the entry value_completions makes of a candidate outside a string
Jsonified(item, q) ==
    <<item.trigger,
      IF item.value.t = "float"
      THEN SliceFrom(FloatStr(item.value.v),
                     Len(LStrip(q.typed, Whitespace)) - Len(q.prefix))
      ELSE encode_value(item.value)>>

\* the list `results` value_completions makes of the candidates, which it
\* meets in the order `order`, that of the iteration of their set
Results(order, q) ==
    IF q.in_str
    THEN LET strings == SelectSeq(order, LAMBDA x : x.value.t = "str")
         IN  [n \in 1..Len(strings) |-> <<strings[n].trigger, strings[n].value.v>>]
    ELSE LET kept == SelectSeq(order,
                               LAMBDA x : x.value.t = "float" =>
                                              StartsWith(FloatStr(x.value.v),
                                                         LStrip(q.typed, Whitespace)))
         IN  [n \in 1..Len(kept) |-> Jsonified(kept[n], q)]

\* is_str: a value is a string, or a list that starts with a string
is_str(items) ==
    \E item \in items :
        \/ item.value.t = "str"
        \/ /\ item.value.t = "list"
           /\ item.value.v # <<>>
           /\ item.value.v[1].t = "str"

\* the orders in which the iteration of a set can give its members: the
\* order follows the hashes of the members, which for strings change from
\* one run of the interpreter to the next
Orders(S) ==
    {order \in [1..Cardinality(S) -> S] :
        \A i, j \in 1..Cardinality(S) : order[i] = order[j] => i = j}

\* the orders in which value_completions can meet the candidates
CandidateOrders(completions) ==
    IF completions \in {Raised, None} THEN {<<>>} ELSE Orders(completions.some)

\* value_completions from the call of _value_completions_for on; `order`
\* is the order in which the set of candidates gives them
ValuesFor(completions, q, order) ==
    IF completions = Raised THEN [returned |-> Raised, status |-> <<>>]
    ELSE IF completions \in {None, Some({})}
    THEN [returned |-> None, status |-> <<>>]
    ELSE IF q.in_str /\ ~is_str(completions.some)
    THEN [returned |-> None,
          status |-> <<"Cannot complete value set within a string">>]
    ELSE [returned |-> Some([completions |-> sorted_completions(Results(order, q)),
                             flags |-> "INHIBIT_WORD_COMPLETIONS"]),
          status |-> <<>>]

\* value_completions(view, prefix, point).  q.key is the key
\* get_last_key_name_from finds for the value region at the caret (None
\* without such a region or key), q.in_str whether the caret is in a string,
\* q.typed the text from the start of the value region to the caret, of
\* which the whitespace at its start is stripped, and q.prefix the prefix the
\* host passes.  `if not key` holds for the empty key as for None.
value_completions(d, cm, q, host, order) ==
    IF q.key = None \/ q.key.some = <<>>
    THEN [returned |-> None, status |-> <<>>]
    ELSE ValuesFor(value_completions_for(d, cm, q.key.some, host), q, order)

-----------------------------------------------------------------------------
\* A settings view asks for value completions: every shape of default and of
\* comment for the key "k", and the keys color_scheme and theme.

\*   k
KeyK ==
    <<"k">>

\*   no values
CommentPlain ==
    <<"n", "o", " ", "v", "a", "l", "u", "e", "s">>

\*   one of "abc", "true" or "12"
CommentQuoted ==
    <<"o", "n", "e", " ", "o", "f", " ", "\"", "a", "b", "c", "\"", ",",
      " ", "\"", "t", "r", "u", "e", "\"", " ", "o", "r", " ", "\"", "1",
      "2", "\"">>

\*   use `"x"` or `[1, 2]`
CommentTicks ==
    <<"u", "s", "e", " ", BackTick, "\"", "x", "\"", BackTick, " ", "o",
      "r", " ", BackTick, "[", "1", ",", " ", "2", "]", BackTick>>

\*   may be `null`
CommentNull ==
    <<"m", "a", "y", " ", "b", "e", " ", BackTick, "n", "u", "l", "l",
      BackTick>>

\*   like `foo`
CommentWord ==
    <<"l", "i", "k", "e", " ", BackTick, "f", "o", "o", BackTick>>

\*   like `[[1]]`
CommentNested ==
    <<"l", "i", "k", "e", " ", BackTick, "[", "[", "1", "]", "]", BackTick>>

\*   like `{"a": 1}`
CommentMapping ==
    <<"l", "i", "k", "e", " ", BackTick, "{", "\"", "a", "\"", ":", " ",
      "1", "}", BackTick>>

\*   "1.5" or "0.5"
CommentFloat ==
    <<"\"", "1", ".", "5", "\"", " ", "o", "r", " ", "\"", "0", ".", "5",
      "\"">>

\*   "a", "B" or `true`
CommentMixed ==
    <<"\"", "a", "\"", ",", " ", "\"", "B", "\"", " ", "o", "r", " ",
      BackTick, "t", "r", "u", "e", BackTick>>

\*   "on" or "ON"
CommentTies ==
    <<"\"", "o", "n", "\"", " ", "o", "r", " ", "\"", "O", "N", "\"">>

\*   "1e5", "1.50" or "nan"
CommentNumerals ==
    <<"\"", "1", "e", "5", "\"", ",", " ", "\"", "1", ".", "5", "0", "\"",
      " ", "o", "r", " ", "\"", "n", "a", "n", "\"">>

\*   (an empty comment)
CommentEmpty ==
    <<>>

\*   "\xe9" or "\xc9a" (a small and a capital e with an acute accent)
CommentAccents ==
    <<"\"", "\\xe9", "\"", " ", "o", "r", " ", "\"", "\\xc9", "a", "\"">>

CommentShapes ==
    {CommentPlain, CommentQuoted, CommentTicks,
     CommentNull, CommentWord, CommentNested,
     CommentMapping, CommentFloat, CommentMixed, CommentTies,
     CommentNumerals, CommentAccents, CommentEmpty}

\* the defaults a settings file can give the key: null, booleans, numbers,
\* a string, lists and mappings
DefaultShapes ==
    {[t |-> "null"],
     [t |-> "bool", v |-> TRUE],
     [t |-> "bool", v |-> FALSE],
     [t |-> "int", v |-> 1],
     [t |-> "float", v |-> Finite(FALSE, <<"1", "5">>, 1)],
     [t |-> "str", v |-> <<"s">>],
     [t |-> "list", v |-> <<>>],
     [t |-> "list", v |-> <<[t |-> "int", v |-> 1], [t |-> "int", v |-> 2]>>],
     [t |-> "list", v |-> <<[t |-> "str", v |-> <<"a">>], [t |-> "str", v |-> <<"a">>]>>],
     [t |-> "list", v |-> <<[t |-> "list", v |-> <<[t |-> "int", v |-> 1]>>]>>],
     [t |-> "dict", v |-> <<>>, k |-> <<>>],
     [t |-> "dict", v |-> [key \in {<<"a">>} |-> [t |-> "int", v |-> 1]],
      k |-> <<<<"a">>>>]}

\*   Packages/A/m.tmTheme
PathScheme ==
    <<"P", "a", "c", "k", "a", "g", "e", "s", "/", "A", "/", "m", ".", "t",
      "m", "T", "h", "e", "m", "e">>

\*   Packages/A/d.sublime-theme
PathTheme ==
    <<"P", "a", "c", "k", "a", "g", "e", "s", "/", "A", "/", "d", ".", "s",
      "u", "b", "l", "i", "m", "e", "-", "t", "h", "e", "m", "e">>

\* what the host's resources and the package settings say
HostChoices ==
    {[schemes |-> <<>>, themes |-> <<>>, hidden |-> <<>>],
     [schemes |-> <<PathScheme>>, themes |-> <<PathTheme>>, hidden |-> <<>>],
     [schemes |-> <<PathScheme>>, themes |-> <<PathTheme>>, hidden |-> <<<<"A">>>>]}

\* the text typed in the value region and the prefix the host passes
TypedChoices ==
    {[typed |-> <<>>, prefix |-> <<>>],
     [typed |-> <<"1", ".">>, prefix |-> <<>>],
     [typed |-> <<" ", "1", ".">>, prefix |-> <<>>],
     [typed |-> <<"s">>, prefix |-> <<"s">>]}

\* the key get_last_key_name_from finds: none, the empty key, or a key
QueryKeys == {None, Some(<<>>), Some(KeyK), Some(KeyColorScheme), Some(KeyTheme)}

\* the default the settings file gives the empty key
DefaultOfEmptyKey == [t |-> "str", v |-> <<"e">>]

\* the defaults of a settings file with the keys "k" and ""
DefaultsWith(d) ==
    [key \in {KeyK, <<>>} |-> IF key = KeyK THEN d ELSE DefaultOfEmptyKey]

InitValue ==
    /\ defaults \in {<<>>} \cup {DefaultsWith(d) : d \in DefaultShapes}
    /\ comments \in {<<>>} \cup {[key \in {KeyK} |-> c] : c \in CommentShapes}
    /\ vquery = None
    /\ vanswer = None
    /\ world = <<>>
    /\ filename = <<"Python", ".sublime-settings">>
    /\ pc = "loaded"
    /\ resources = <<>>
    /\ idx = 0
    /\ loaded = <<>>
    /\ errors = <<>>
    /\ on_loaded = 0
    /\ IdleParse
    /\ IdleScope
    /\ IdleReload
    /\ IdleCommit

\* on_query_completions at a value: value_completions, which calls
\* _value_completions_for (one query is followed in each behaviour)
QueryValue ==
    /\ vquery = None
    /\ \E key \in QueryKeys, in_str \in BOOLEAN, t \in TypedChoices,
          host \in HostChoices :
          LET q == [key |-> key, in_str |-> in_str, typed |-> t.typed,
                    prefix |-> t.prefix, host |-> host]
              for == IF key \in {None, Some(<<>>)} THEN None
                     ELSE value_completions_for(defaults, comments, key.some, host)
          IN  \E order \in CandidateOrders(for) :
                 /\ vquery' = Some(q)
                 /\ vanswer' =
                       [for |-> for,
                        completions |-> value_completions(defaults, comments, q,
                                                          host, order)]
    /\ UNCHANGED <<kbvars, psvars, scvars, rlvars, ccvars>>

NextValue == QueryValue

SpecValue == InitValue /\ [][NextValue]_vars

-----------------------------------------------------------------------------
\* Properties of the value completions (specification SpecValue)

\* C11 (as claimed): whatever the key, its comment and its default are, a
\* value completion query ends with completions or with none:
\* _value_completions_for and value_completions never raise.
C11_ValueCompletionsNeverRaise ==
    vanswer # None =>
        /\ vanswer.for # Raised
        /\ vanswer.completions.returned # Raised

\* the candidates the comment of the key "k" gives
Scraped == completions_from_comment(comments, KeyK)

\* what the claimed fallback gives for the default of the key "k"
FromDefaultAsClaimed ==
    IF KeyK \notin DOMAIN defaults \/ defaults[KeyK].t = "null" THEN {}
    ELSE IF defaults[KeyK].t = "bool"
    THEN {format_completion_item([t |-> "bool", v |-> FALSE]),
          format_completion_item([t |-> "bool", v |-> TRUE])}
    ELSE IF defaults[KeyK].t = "list"
    THEN {format_completion_item(defaults[KeyK].v[n]) :
             n \in 1..Len(defaults[KeyK].v)}
    ELSE {format_completion_item(defaults[KeyK])}

\* C16 (as claimed): for a key other than color_scheme and theme,
\* _value_completions_for returns the candidates of the comment when there
\* is one, and otherwise those of the default: false and true for a boolean,
\* the members of a list, the default itself for any other value that is not
\* null, and nothing for a missing or null default.
C16_CommentThenDefault ==
    (vquery # None /\ vquery.some.key = Some(KeyK)) =>
        /\ vanswer.for # Raised
        /\ IF Scraped \notin {None, Some({}), Raised}
           THEN vanswer.for = Scraped
           ELSE IF FromDefaultAsClaimed = {}
           THEN vanswer.for \in {None, Some({})}
           ELSE vanswer.for = Some(FromDefaultAsClaimed)

\* the completions of the last query are in the order of their lowered
\* triggers
SortedByTrigger ==
    LET cs == vanswer.completions.returned.some.completions
    IN  \A i, j \in 1..Len(cs) :
            i < j => ~StrLess(lower(cs[j][1]), lower(cs[i][1]))

\* the candidates of the last query: what _value_completions_for returned,
\* none when it returned None or raised
Candidates ==
    IF vanswer.for \in {None, Raised} THEN {} ELSE vanswer.for.some

\* C22 (as claimed): for a query at the value of a key, when the caret is in
\* a string and no candidate is a string or a list that starts with a
\* string, value_completions returns no completions and shows the status
\* message; when the caret is in a string, the completions returned are those
\* of the candidates that are strings and no other, the value of each being
\* the string; whatever the caret is in, the list returned is sorted by the
\* trigger without regard to case.
C22_StringsOnlyWithinString ==
    (vquery # None /\ vquery.some.key \notin {None, Some(<<>>)}) =>
        LET strings == {item \in Candidates : item.value.t = "str"}
            starts == {item \in Candidates :
                         /\ item.value.t = "list"
                         /\ item.value.v # <<>>
                         /\ item.value.v[1].t = "str"}
            answer == vanswer.completions
        IN  /\ (vquery.some.in_str /\ strings \cup starts = {}) =>
                   /\ answer.returned = None
                   /\ answer.status = <<"Cannot complete value set within a string">>
            /\ (vquery.some.in_str /\ answer.returned \notin {None, Raised}) =>
                   LET cs == answer.returned.some.completions
                   IN  {cs[i] : i \in 1..Len(cs)}
                           = {<<item.trigger, item.value.v>> : item \in strings}
            /\ answer.returned \notin {None, Raised} => SortedByTrigger

-----------------------------------------------------------------------------
\* Settings views: every view gets a SettingsListener, whose __init__ makes a
\* KnownSettings for a settings file; trigger_settings_reload empties the
\* maps and schedules _load_settings on the host's async thread, which runs
\* the scheduled calls one after the other.  Listeners are created, reloads
\* are triggered and completions and tooltips are asked for on the main
\* thread, one handler at a time; the two threads share the maps of the
\* objects without a lock, so a handler is one step only where the other
\* thread cannot see or change what it works on.

\* views opened
MaxListeners == 2
\* calls of trigger_settings_reload after the one of __init__
MaxReloads == 1

\* view.file_name() as <<root, extension>> of its base name
ListenerFiles ==
    {<<"Python", ".sublime-settings">>,
     <<"notes", ".txt">>}

\* the installed resources: two settings files around a broken one, or
\* nothing but resources that fail
WorldsReload ==
    {<<Catalogue[1], Catalogue[3], Catalogue[2]>>,
     <<Catalogue[3], Catalogue[10]>>}

\* snippets inserted into the views by on_navigate
MaxEdits == 1

\* what a view shows: its top-level keys in the order of the text, the
\* regions view.find_by_selector(KEY_SCOPE) gives, after each key the text
\* up to the end of its value, and whether there is a mapping at all.  The
\* text is laid out as insert_snippet leaves it:
\*     {
\*     <tab>"a": 1,
\*     <tab>"b": 2
\*     }
ViewKeys == << <<"a">>, <<"b">> >>

\* the text a view opens with: a settings file with the keys above and
\* their values, another file empty
ViewShape(file) ==
    IF file[2] = ".sublime-settings"
    THEN [keys |-> ViewKeys, values |-> << <<" ", "1">>, <<" ", "2">> >>,
          mapping |-> TRUE]
    ELSE [keys |-> <<>>, values |-> <<>>, mapping |-> FALSE]

\* the keys the pointer is put over
HoverKeys == {ViewKeys[2]}

\* an attribute of an object that no assignment has made yet
Unset == [unset |-> TRUE]

\* a handler ended with the exception of reading such an attribute, with
\* the one of iterating over a dictionary that grew meanwhile, with the one
\* of a key a dictionary does not hold, or with the one of unpacking a list
\* of another length
AttributeError == [raised |-> "AttributeError"]
RuntimeError == [raised |-> "RuntimeError"]
KeyError == [raised |-> "KeyError"]
ValueError == [raised |-> "ValueError"]

\* a KnownSettings object as __init__ has it before its call of
\* trigger_settings_reload; `order` is the order of the keys of the
\* dictionary `defaults`, `listener` is the listener whose do_linting is
\* self.on_loaded.  History kept with the object: `on_loaded` counts the
\* calls of the callback, `triggers` counts the calls of
\* trigger_settings_reload, `since` says for every entry of the two maps
\* after the start of which of these calls it was written, `replaced`
\* whether a call replaced a map that held entries, `whole` counts the scans
\* that began and ended since the last of these calls.
NewKnownSettings(fn, listener) ==
    [filename |-> fn, defaults |-> <<>>, order |-> <<>>, comments |-> <<>>,
     on_loaded |-> 0, listener |-> listener,
     triggers |-> 0, since |-> [defaults |-> <<>>, comments |-> <<>>],
     replaced |-> FALSE, whole |-> 0]

\* mutant: `defaults` is kept when a reload is triggered
ReplaceDefaults_keep(o) ==
    [o EXCEPT !.triggers = @ + 1,
              !.whole = 0,
              !.replaced = @ \/ o.defaults # <<>> \/ o.comments # <<>>]

\* trigger_settings_reload, its first statement: `self.defaults = {}`
ReplaceDefaults(o) ==
    [o EXCEPT !.defaults = <<>>,
              !.order = <<>>,
              !.since = [@ EXCEPT !.defaults = <<>>],
              !.triggers = @ + 1,
              !.whole = 0,
              !.replaced = @ \/ o.defaults # <<>> \/ o.comments # <<>>]

\* trigger_settings_reload, its second statement: `self.comments = {}`
ReplaceComments(o) ==
    [o EXCEPT !.comments = <<>>,
              !.since = [@ EXCEPT !.comments = <<>>],
              !.replaced = @ \/ o.comments # <<>>]

\* trigger_settings_reload on an object no other thread can reach yet (the
\* scheduling is in the actions)
trigger_settings_reload(o) == ReplaceComments(ReplaceDefaults(o))

\* sublime.set_timeout_async(self._load_settings, 0) for the object `id`;
\* `op` counts the writes the running iteration of the loop has made, `seen`
\* the iterations the call has finished, `began` is the number of calls of
\* trigger_settings_reload its object had when the call began (0 when it
\* began during such a call)
ScheduledLoad(id) ==
    [known_settings |-> id, pc |-> "scheduled", resources |-> <<>>, idx |-> 0,
     op |-> 0, seen |-> 0, began |-> 0]

\* mutant: an object made for the same file name is used again
KnownSettings_cached(objs, fn) ==
    IF \E i \in 1..Len(objs) : objs[i].filename = fn
    THEN CHOOSE i \in 1..Len(objs) : objs[i].filename = fn
    ELSE Len(objs) + 1

\* KnownSettings(filename, on_loaded=self.do_linting): the object the call
\* gives, as its position among the objects: always a new one
KnownSettings(objs, fn) == Len(objs) + 1

\* the history of a map after a write: new entries are written now
Since(old, was, written, now) ==
    [k \in DOMAIN written |-> IF k \in DOMAIN was THEN old[k] ELSE now]

\* calls of trigger_settings_reload that were not made by __init__
RECURSIVE Reloads(_)
Reloads(objs) ==
    IF objs = <<>> THEN 0 ELSE (Head(objs).triggers - 1) + Reloads(Tail(objs))

\* LoadResource with the scan of the resource's text taken from ParsedAlone:
\* the lines and the decoded value do not depend on the comments recorded
\* before, and a comment is recorded for the keys that have none yet
LoadResourceLookup(w, d, cm, path) ==
    IF is_ignored(path)
    THEN [defaults |-> d, comments |-> cm, loaded |-> FALSE, error |-> FALSE]
    ELSE LET r == ResourceAt(w, path) IN
         IF ~r.readable
         THEN [defaults |-> d, comments |-> cm, loaded |-> TRUE, error |-> TRUE]
         ELSE LET parsed == ParsedAlone[r.text] IN
              IF parsed.returned.ok /\ parsed.returned.val.t = "dict"
              THEN [defaults |-> merge(d, parsed.returned.val.v),
                    comments |-> merge(cm, parsed.comments),
                    loaded |-> TRUE, error |-> FALSE]
              ELSE [defaults |-> d, comments |-> merge(cm, parsed.comments),
                    loaded |-> TRUE, error |-> TRUE]

\* `defaults` after the whole loop of _load_settings over `paths`
RECURSIVE load_settings(_, _, _)
load_settings(w, d, paths) ==
    IF paths = <<>> THEN d
    ELSE load_settings(w, LoadResourceLookup(w, d, <<>>, Head(paths)).defaults,
                       Tail(paths))

\* `comments` after the whole loop of _load_settings over `paths`
RECURSIVE load_comments(_, _, _)
load_comments(w, cm, paths) ==
    IF paths = <<>> THEN cm
    ELSE load_comments(w, LoadResourceLookup(w, <<>>, cm, Head(paths)).comments,
                       Tail(paths))

\* the statements `if key not in self.comments: self.comments[key] = ...`
\* that _parse_settings comes to on the lines `ls`, in the order of the
\* lines: which lines are kept, which comment is pending and which key a
\* line has do not depend on self.comments, so each line is scanned with no
\* comment recorded and gives the entry it would write
RECURSIVE CommentWrites(_, _)
CommentWrites(st, ls) ==
    IF ls = <<>> THEN <<>>
    ELSE LET next == ParseLine([st EXCEPT !.comments = <<>>], Head(ls))
             here == IF next.comments = <<>> THEN <<>>
                     ELSE LET key == CHOOSE k \in DOMAIN next.comments : TRUE
                          IN  <<[map |-> "comments", key |-> key,
                                 value |-> next.comments[key]]>>
         IN  here \o CommentWrites(next, Tail(ls))

\* the calls `self.defaults.setdefault(key, value)` of the loop over the
\* items of the mapping _parse_settings returned, in the order of its keys
DefaultWrites(returned) ==
    IF returned.ok /\ returned.val.t = "dict"
    THEN [n \in 1..Len(returned.val.k) |->
             [map |-> "defaults", key |-> returned.val.k[n],
              value |-> returned.val.v[returned.val.k[n]]]]
    ELSE <<>>

\* one iteration of the loop on a text that load_resource gave: the
\* statements that read and write the maps of the object, those of
\* _parse_settings before the decoding and those of the merge after it, and
\* whether the iteration ends in the except clause
Accesses ==
    [t \in {Catalogue[c].text : c \in 1..Len(Catalogue)} |->
        [writes |-> CommentWrites(ParseStart(<<>>), t)
                        \o DefaultWrites(ParsedAlone[t].returned),
         error |-> ~(ParsedAlone[t].returned.ok
                        /\ ParsedAlone[t].returned.val.t = "dict")]] @@ <<>>

\* one iteration of `for resource in resources`
Pass(w, path) ==
    IF is_ignored(path) THEN [writes |-> <<>>, error |-> FALSE]
    ELSE IF ~ResourceAt(w, path).readable THEN [writes |-> <<>>, error |-> TRUE]
    ELSE Accesses[ResourceAt(w, path).text]

\* the object after one statement of a scan: the entry is added to the map
\* the object has now unless the map has the key
Write(o, a) ==
    IF a.map = "comments"
    THEN LET written == merge(o.comments, a.key :> a.value)
         IN  [o EXCEPT !.comments = written,
                       !.since = [@ EXCEPT !.comments =
                                      Since(@, o.comments, written, o.triggers)]]
    ELSE LET written == merge(o.defaults, a.key :> a.value)
         IN  [o EXCEPT !.defaults = written,
                       !.order = IF a.key \in DOMAIN o.defaults THEN @
                                 ELSE Append(@, a.key),
                       !.since = [@ EXCEPT !.defaults =
                                      Since(@, o.defaults, written, o.triggers)]]

\* KnownSettings._key_snippet(key, value, bol, eol)
key_snippet(key, value, bol, eol) ==
    LET encoded == encode_value(value)
        inner == SubSeq(encoded, 2, Len(encoded) - 1)
        name == bol \o <<"\"">> \o key \o <<"\"", ":">>
        field == <<"$", "{", "1", ":">>
        rest == eol \o <<"$", "0">>
    IN  CASE value.t = "str" ->
                name \o <<" ", "\"">> \o field \o inner \o <<"}", "\"">> \o rest
          [] value.t = "list" ->
                name \o <<"\n", "[", "\n", "\t">> \o field \o inner
                     \o <<"}", "\n", "]">> \o rest
          [] value.t = "dict" ->
                name \o <<"\n", "{", "\n", "\t">> \o field \o inner
                     \o <<"}", "\n", "}">> \o rest
          [] OTHER ->
                name \o <<" ">> \o field \o encoded \o <<"}">> \o rest

\* what the view says at the caret of a completion query at a key: the
\* number of carets, whether the caret is in a string, the line of the caret
\* and the prefix the host passes
KeyQueries ==
    {[locations |-> 1, in_str |-> TRUE, line |-> <<" ", "\"", "a">>,
      prefix |-> <<"a">>],
     [locations |-> 1, in_str |-> FALSE, line |-> <<" ", " ", "a">>,
      prefix |-> <<"a">>],
     [locations |-> 1, in_str |-> FALSE, line |-> <<"a", " ", "}">>,
      prefix |-> <<"a">>],
     [locations |-> 2, in_str |-> FALSE, line |-> <<"a">>, prefix |-> <<"a">>]}

\* key_completions(view, prefix, point) when nothing is added to
\* self.defaults meanwhile: one completion per key in the order of the
\* dictionary, the key alone within quotation marks and the snippet of the
\* key and its default otherwise
key_completions(o, q) ==
    LET line == Strip(q.line)
        eol == IF Len(line) = Len(q.prefix) THEN <<",">> ELSE <<",", "\n">>
    IN  [completions |->
            [n \in 1..Len(o.order) |->
                <<o.order[n] \o <<" ", " ", "\t", "s", "e", "t", "t", "i", "n", "g">>,
                  IF q.in_str THEN o.order[n]
                  ELSE key_snippet(o.order[n], o.defaults[o.order[n]], <<>>, eol)>>],
         flags |-> "INHIBIT_WORD_COMPLETIONS"]

\* on_query_completions at a key, the dictionary staying as it is
on_query_completions(listener, objs, q) ==
    IF listener.known_settings # None /\ q.locations = 1
    THEN Some(key_completions(objs[listener.known_settings.some], q))
    ELSE None

\* text.replace(old, new), for a text `old` that is not empty
RECURSIVE Replace(_, _, _)
Replace(text, old, new) ==
    IF text = <<>> THEN <<>>
    ELSE IF StartsWith(text, old)
    THEN new \o Replace(Drop(text, Len(old)), old, new)
    ELSE <<Head(text)>> \o Replace(Tail(text), old, new)

Nbsp2 ==
    <<"&", "n", "b", "s", "p", ";", "&", "n", "b", "s", "p", ";">>

\* html_encode(string)
html_encode(string) ==
    IF string = <<>> THEN <<>>
    ELSE Replace(
           Replace(
             Replace(
               Replace(
                 Replace(
                   Replace(string, <<"&">>, <<"&", "a", "m", "p", ";">>),
                   <<"<">>, <<"&", "l", "t", ";">>),
                 <<">">>, <<"&", "g", "t", ";">>),
               <<"\t">>, Nbsp2),
             <<" ", " ", " ", " ">>, Nbsp2),
           <<"\n">>, <<"<", "b", "r", ">">>)

NoDescription ==
    <<"N", "o", " ", "d", "e", "s", "c", "r", "i", "p", "t", "i", "o", "n",
      ".">>

\*   unknown setting
UnknownSetting ==
    <<"u", "n", "k", "n", "o", "w", "n", " ", "s", "e", "t", "t", "i", "n", "g">>

\* sublime.encode_value(value, pretty=True) for a value that stands behind
\* the margin `margin`: a list or a mapping that is not empty has every
\* element on a line of its own, four spaces further in than the line of its
\* bracket, with a comma behind every element but the last, and the closing
\* bracket on a line of its own at the margin; any other value is written as
\* encode_value writes it
RECURSIVE encode_pretty(_, _)
encode_pretty(value, margin) ==
    LET inner == margin \o <<" ", " ", " ", " ">>
        break == <<",", "\n">> \o inner
    IN  CASE value.t = "list" /\ value.v # <<>> ->
               <<"[", "\n">> \o inner
               \o Join([n \in 1..Len(value.v) |-> encode_pretty(value.v[n], inner)],
                       break)
               \o <<"\n">> \o margin \o <<"]">>
          [] value.t = "dict" /\ value.k # <<>> ->
               <<"{", "\n">> \o inner
               \o Join([n \in 1..Len(value.k) |->
                           <<"\"">> \o EscapeJson(value.k[n]) \o <<"\"", ":", " ">>
                           \o encode_pretty(value.v[value.k[n]], inner)],
                       break)
               \o <<"\n">> \o margin \o <<"}">>
          [] OTHER -> encode_value(value)

\*   <a href="edit:{0}">(a pencil, U+270F)</a>
EditLink(key) ==
    <<"<", "a", " ", "h", "r", "e", "f", "=", "\"", "e", "d", "i", "t", ":">>
    \o key \o <<"\"", ">", "\\u270f", "<", "/", "a", ">">>

\* the html build_tooltip formats: the key and the link in a heading, the
\* default in a second heading and the comment in a paragraph
TooltipHtml(key, edit, default, comment) ==
    <<"<", "h", "1", ">">> \o key \o <<" ">> \o edit
    \o <<"<", "/", "h", "1", ">", "<", "h", "2", ">", "D", "e", "f", "a", "u", "l", "t", ":", " ">>
    \o default
    \o <<"<", "/", "h", "2", ">", "<", "p", ">">>
    \o comment \o <<"<", "/", "p", ">">>

\* the parts of the tooltip of a key of the defaults: the comment and the
\* default, html encoded, and the target of the edit link, which is there
\* when the view is the base view of a side-by-side pair, `base`
KnownTooltip(o, key, base) ==
    [known |-> TRUE,
     comment |-> html_encode(IF /\ key \in DOMAIN o.comments
                                /\ o.comments[key] # <<>>
                             THEN o.comments[key]
                             ELSE NoDescription),
     default |-> html_encode(encode_pretty(o.defaults[key], <<>>)),
     edit |-> IF base THEN Some(<<"e", "d", "i", "t", ":">> \o key) ELSE None]

\* the parts of the tooltip of any other key
UnknownTooltip ==
    [known |-> FALSE, comment |-> NoDescription, default |-> UnknownSetting,
     edit |-> None]

\* the parts with the html made of them
WithHtml(parts, key) ==
    [known |-> parts.known, comment |-> parts.comment, default |-> parts.default,
     edit |-> parts.edit,
     html |-> TooltipHtml(key, IF parts.edit = None THEN <<>> ELSE EditLink(key),
                          parts.default, parts.comment)]

\* build_tooltip(view, key): the html it returns, with the parts it is made
\* of
build_tooltip(o, key, base) ==
    WithHtml(IF key \in DOMAIN o.defaults THEN KnownTooltip(o, key, base)
             ELSE UnknownTooltip,
             key)

\* the text of a view
Entry(view, n) == <<"\t", "\"">> \o view.keys[n] \o <<"\"", ":">> \o view.values[n]

ViewText(view) ==
    IF ~view.mapping THEN <<>>
    ELSE IF view.keys = <<>> THEN <<"{", "\n", "}", "\n">>
    ELSE <<"{", "\n">>
         \o Join([n \in 1..Len(view.keys) |-> Entry(view, n)], <<",", "\n">>)
         \o <<"\n", "}", "\n">>

\* the region of the first match of a text in a text, as view.find gives it
\* for a pattern without special characters: Region(-1, -1) for none
RECURSIVE FindFrom(_, _, _)
FindFrom(text, pattern, i) ==
    IF i + Len(pattern) > Len(text) THEN [a |-> -1, b |-> -1]
    ELSE IF SubSeq(text, i + 1, i + Len(pattern)) = pattern
    THEN [a |-> i, b |-> i + Len(pattern)]
    ELSE FindFrom(text, pattern, i + 1)

find(text, pattern, start) == FindFrom(text, pattern, start)

\* the regions of the values of a view, view.find_by_selector(VALUE_SCOPE):
\* from the colon after each key to the end of its value
ValueRegion(view, n) ==
    [a |-> FindFrom(ViewText(view), Entry(view, n), 0).a + Len(view.keys[n]) + 4,
     b |-> FindFrom(ViewText(view), Entry(view, n), 0).b]

ValueRegions(view) == [n \in 1..Len(view.keys) |-> ValueRegion(view, n)]

\* view.find_by_selector("meta.mapping"): the mapping from its opening to
\* its closing brace
MappingRegions(view) ==
    IF view.mapping THEN <<[a |-> 0, b |-> Len(ViewText(view)) - 1]>> ELSE <<>>

\* what the host says of a view: its text and the regions of the selectors
HostView(view) ==
    [text |-> ViewText(view), value_regions |-> ValueRegions(view),
     mapping_regions |-> MappingRegions(view)]

\* view.substr(view.line(point)), the line the point is in
RECURSIVE LineStart(_, _)
LineStart(text, point) ==
    IF point = 0 \/ text[point] = "\n" THEN point ELSE LineStart(text, point - 1)

RECURSIVE LineEnd(_, _)
LineEnd(text, point) ==
    IF point >= Len(text) \/ text[point + 1] = "\n" THEN point
    ELSE LineEnd(text, point + 1)

LineAt(text, point) ==
    SubSeq(text, LineStart(text, point) + 1, LineEnd(text, point))

\* where insert_snippet puts the snippet and what it puts before and after
\* the key and its value
SnippetPlace(host) ==
    IF host.value_regions # <<>>
    THEN IF /\ host.value_regions[Len(host.value_regions)].b < Len(host.text)
            /\ host.text[host.value_regions[Len(host.value_regions)].b + 1] = ","
         THEN [point |-> host.value_regions[Len(host.value_regions)].b + 1,
               bol |-> <<"\n">>, eol |-> <<>>]
         ELSE [point |-> host.value_regions[Len(host.value_regions)].b,
               bol |-> <<",", "\n">>, eol |-> <<>>]
    ELSE IF host.mapping_regions # <<>>
    THEN [point |-> host.mapping_regions[Len(host.mapping_regions)].b - 1,
          bol |-> <<"\t">>, eol |-> <<"\n">>]
    ELSE [point |-> Len(host.text),
          bol |-> IF Strip(LineAt(host.text, Len(host.text))) = <<>>
                  THEN <<"{", "\n", "\t">> ELSE <<"\n", "{", "\n", "\t">>,
          eol |-> <<"\n", "}", "\n">>]

\* insert_snippet(view, key): the caret it sets and the snippet it has the
\* view insert, or the KeyError of a key that is not in the defaults
insert_snippet(o, host, key) ==
    IF key \notin DOMAIN o.defaults THEN KeyError
    ELSE [done |-> "insert", point |-> SnippetPlace(host).point,
          contents |-> key_snippet(key, o.defaults[key], SnippetPlace(host).bol,
                                   SnippetPlace(host).eol)]

\* on_navigate(href) of a listener whose object is `o`.  `user` is what
\* the host says of the view the setting edit_settings_other_view_id names,
\* None when that is no valid view.
Navigated(o, parts, user) ==
    IF Len(parts) # 2 THEN ValueError
    ELSE IF parts[1] # <<"e", "d", "i", "t">> \/ user = None
    THEN [done |-> "nothing"]
    ELSE IF find(user.some.text, <<"\"">> \o parts[2] \o <<"\"">>, 0).a = -1
    THEN insert_snippet(o, user.some, parts[2])
    ELSE [done |-> "select",
          point |-> find(user.some.text, <<"\"">> \o parts[2] \o <<"\"">>, 0).b + 2]

on_navigate(o, href, user) == Navigated(o, Split(href, ":"), user)

\* the text the host leaves of a snippet: the fields with the texts they
\* hold, the marks of the fields gone
RECURSIVE Expand(_, _)
Expand(contents, field) ==
    IF contents = <<>> THEN <<>>
    ELSE IF StartsWith(contents, <<"$", "0">>)
    THEN Expand(Drop(contents, 2), field)
    ELSE IF ~field /\ StartsWith(contents, <<"$", "{", "1", ":">>)
    THEN Expand(Drop(contents, 4), TRUE)
    ELSE IF field /\ Head(contents) = "}" THEN Expand(Tail(contents), FALSE)
    ELSE <<Head(contents)>> \o Expand(Tail(contents), field)

\* a view after the snippet of a key of the defaults is inserted, for a
\* default of one line (the host indents the further lines of a snippet as
\* the line of the caret)
Inserted(view, o, key) ==
    [view EXCEPT !.keys = Append(@, key),
                 !.values = Append(@, Drop(Expand(key_snippet(key, o.defaults[key],
                                                              <<>>, <<>>),
                                                  FALSE),
                                           Len(key) + 3)),
                 !.mapping = TRUE,
                 !.edits = @ + 1]

\* the texts of the regions do_linting keeps: the top-level keys of the view
\* that are not in known_settings, whose __iter__ is that of the dictionary
\* self.defaults is at the moment of the test; tables[n] is the `defaults`
\* the test of the n-th key finds
unknown_keys(keys, tables) ==
    {keys[n] : n \in {m \in 1..Len(keys) : keys[m] \notin DOMAIN tables[m]}}

\* the packages the file of a view lies in when do_linting asks for its
\* path
ViewPackages == {"User", "Python"}

\* view.file_name(), as the pieces between the separators
file_name(package, file) ==
    <<"", "home", "Packages", package, file[1] \o file[2]>>

\* `USER_PATH in path`, USER_PATH being "{0}Packages{0}User{0}"
in_user_path(path) ==
    \E i \in 2..(Len(path) - 2) : path[i] = "Packages" /\ path[i + 1] = "User"

\* the n-th view as its listener gets it: no region set
\* 'unknown_settings_keys', no popup with an edit link, no snippet inserted.
\* The first two views are opened as the pair of a side-by-side layout: the
\* first is the base view, and each names the other in its settings.
NewView(shape, n) ==
    [keys |-> shape.keys, values |-> shape.values, mapping |-> shape.mapping,
     edit_settings_view |-> IF n = 1 THEN "base" ELSE "user",
     edit_settings_other_view_id |-> IF n = 1 THEN 2 ELSE 1,
     unknown_settings_keys |-> None, popup |-> None, edits |-> 0]

\* do_linting: the region set 'unknown_settings_keys' of the view after it,
\* Some(texts) after view.add_regions and None after view.erase_regions, or
\* the AttributeError of a listener whose known_settings is not assigned
do_linting(listener, view, path, tables, enabled) ==
    IF listener.known_settings = Unset THEN AttributeError
    ELSE IF /\ listener.known_settings # None
            /\ in_user_path(path)
            /\ enabled
    THEN LET unknown_regions == unknown_keys(view.keys, tables)
         IN  IF unknown_regions # {} THEN Some(unknown_regions) ELSE None
    ELSE None

\* the `defaults` the tests of do_linting find, when self.defaults is
\* replaced by an empty dictionary after the tests of the first `cut` keys
Tables(keys, d, cut) == [n \in 1..Len(keys) |-> IF n <= cut THEN d ELSE <<>>]

InitReload ==
    /\ world \in WorldsReload
    /\ listeners = <<>>
    /\ objects = <<>>
    /\ tasks = <<>>
    /\ main = None
    /\ observed = None
    /\ views = <<>>
    /\ linted = None
    /\ filename = <<"Python", ".sublime-settings">>
    /\ defaults = <<>>
    /\ comments = <<>>
    /\ pc = "idle"
    /\ resources = <<>>
    /\ idx = 0
    /\ loaded = <<>>
    /\ errors = <<>>
    /\ on_loaded = 0
    /\ IdleParse
    /\ IdleScope
    /\ IdleValue
    /\ IdleCommit

\* the scheduled calls of _load_settings of the object `id` not yet finished
Pending(id) == {t \in 1..Len(tasks) : tasks[t].known_settings = id}

\* the main thread is in trigger_settings_reload of the object `id`, between
\* its two assignments
Calling(id) == main # None /\ main.op = "trigger" /\ main.id = id

\* SettingsListener.__init__ for a new view, up to the return of
\* KnownSettings(...): the object is made and its scan is scheduled, the
\* attribute known_settings of the listener is not assigned yet.  For a
\* file that is no settings file the whole of __init__.
NewListener ==
    /\ main = None
    /\ Len(listeners) < MaxListeners
    /\ \E file \in ListenerFiles :
          /\ views' = Append(views, NewView(ViewShape(file), Len(views) + 1))
          /\ IF file[2] = ".sublime-settings"
             THEN LET id == KnownSettings(objects, file) IN
                  /\ listeners' = Append(listeners,
                                         [file |-> file, known_settings |-> Unset,
                                          live |-> TRUE])
                  /\ main' = [op |-> "init", listener |-> Len(listeners) + 1,
                              id |-> id]
                  /\ IF id > Len(objects)
                     THEN /\ objects' =
                                Append(objects,
                                       trigger_settings_reload(
                                           NewKnownSettings(file, Len(listeners) + 1)))
                          /\ tasks' = Append(tasks, ScheduledLoad(id))
                     ELSE UNCHANGED <<objects, tasks>>
             ELSE /\ listeners' = Append(listeners,
                                         [file |-> file, known_settings |-> None,
                                          live |-> TRUE])
                  /\ UNCHANGED <<objects, tasks, main>>
    /\ observed' = None
    /\ linted' = None
    /\ UNCHANGED <<kbvars, psvars, scvars, vcvars, ccvars>>

\* the end of SettingsListener.__init__: the assignment of
\* `self.known_settings = KnownSettings(...)`
AssignKnownSettings ==
    /\ main # None
    /\ main.op = "init"
    /\ listeners' = [listeners EXCEPT ![main.listener].known_settings = Some(main.id)]
    /\ main' = None
    /\ observed' = None
    /\ linted' = None
    /\ UNCHANGED <<objects, tasks, views>>
    /\ UNCHANGED <<kbvars, psvars, scvars, vcvars, ccvars>>

\* trigger_settings_reload called on an object that exists: its first
\* assignment
TriggerReload ==
    /\ main = None
    /\ Reloads(objects) < MaxReloads
    /\ \E id \in 1..Len(objects) :
          /\ listeners[objects[id].listener].live
          /\ objects' = [objects EXCEPT ![id] = ReplaceDefaults(@)]
          /\ main' = [op |-> "trigger", listener |-> 0, id |-> id]
    /\ observed' = None
    /\ linted' = None
    /\ UNCHANGED <<listeners, tasks, views>>
    /\ UNCHANGED <<kbvars, psvars, scvars, vcvars, ccvars>>

\* the rest of trigger_settings_reload: the second assignment and the call
\* of sublime.set_timeout_async
TriggerSchedule ==
    /\ main # None
    /\ main.op = "trigger"
    /\ objects' = [objects EXCEPT ![main.id] = ReplaceComments(@)]
    /\ tasks' = Append(tasks, ScheduledLoad(main.id))
    /\ main' = None
    /\ observed' = None
    /\ linted' = None
    /\ UNCHANGED <<listeners, views>>
    /\ UNCHANGED <<kbvars, psvars, scvars, vcvars, ccvars>>

\* SettingsListener.__del__, when nothing refers to the listener any more:
\* its view is closed and no scheduled call holds its object
DelListener ==
    /\ main = None
    /\ \E l \in 1..Len(listeners) :
          /\ listeners[l].live
          /\ listeners[l].known_settings # None
                 => Pending(listeners[l].known_settings.some) = {}
          /\ listeners' = [listeners EXCEPT ![l].live = FALSE]
          /\ views' = [views EXCEPT ![l].unknown_settings_keys = None,
                                    ![l].popup = None]
    /\ observed' = None
    /\ linted' = None
    /\ UNCHANGED <<objects, tasks, main>>
    /\ UNCHANGED <<kbvars, psvars, scvars, vcvars, ccvars>>

\* the async thread starts the first scheduled _load_settings: up to the loop
TaskBegin ==
    /\ tasks # <<>>
    /\ Head(tasks).pc = "scheduled"
    /\ tasks' = [tasks EXCEPT ![1] =
                    [@ EXCEPT !.pc = "scanning",
                              !.resources =
                                  scan_list(world,
                                            objects[Head(tasks).known_settings].filename),
                              !.idx = 1,
                              !.began =
                                  IF Calling(Head(tasks).known_settings) THEN 0
                                  ELSE objects[Head(tasks).known_settings].triggers]]
    /\ observed' = None
    /\ linted' = None
    /\ UNCHANGED <<listeners, objects, views, main>>
    /\ UNCHANGED <<kbvars, psvars, scvars, vcvars, ccvars>>

\* the running scan is in an iteration of its loop
Scanning ==
    /\ tasks # <<>>
    /\ Head(tasks).pc = "scanning"
    /\ Head(tasks).idx <= Len(Head(tasks).resources)

\* the statements of the running iteration that read and write the maps
Writes == Pass(world, Head(tasks).resources[Head(tasks).idx]).writes

\* the objects after the next statement of the running scan
ScanObjects ==
    LET t == Head(tasks)
    IN  IF t.op < Len(Writes)
        THEN [objects EXCEPT ![t.known_settings] = Write(@, Writes[t.op + 1])]
        ELSE objects

\* the scheduled calls after the next statement of the running scan: the
\* iteration ends with its last statement, in the except clause or not
ScanTasks ==
    LET t == Head(tasks)
        pass == Pass(world, t.resources[t.idx])
    IN  IF t.op + 1 < Len(pass.writes)
        THEN [tasks EXCEPT ![1] = [@ EXCEPT !.op = t.op + 1]]
        ELSE [tasks EXCEPT ![1] =
                 [@ EXCEPT !.op = 0,
                           !.idx = IF pass.error
                                   THEN AfterError(t.idx, Len(t.resources))
                                   ELSE t.idx + 1,
                           !.seen = @ + 1]]

\* the running _load_settings goes on to its next statement on the maps,
\* which it finds in the object at that moment, or through an iteration
\* that has none
TaskResource ==
    /\ Scanning
    /\ objects' = ScanObjects
    /\ tasks' = ScanTasks
    /\ observed' = None
    /\ linted' = None
    /\ UNCHANGED <<listeners, views, main>>
    /\ UNCHANGED <<kbvars, psvars, scvars, vcvars, ccvars>>

\* a run of do_linting on the async thread for the listener `l`, `objs`
\* being the objects when it begins: either no assignment of the main
\* thread falls between its tests, or the main thread starts
\* trigger_settings_reload on the object of the listener between two tests
RunLinting(l, objs) ==
    \E package \in ViewPackages, enabled \in BOOLEAN :
        LET path == file_name(package, listeners[l].file)
            known == listeners[l].known_settings
            keys == views[l].keys
        IN  \/ /\ objects' = objs
               /\ main' = main
               /\ LET done == do_linting(listeners[l], views[l], path,
                                         IF known \in {None, Unset} THEN <<>>
                                         ELSE Tables(keys, objs[known.some].defaults,
                                                     Len(keys)),
                                         enabled)
                  IN  /\ views' = IF done = AttributeError THEN views
                                  ELSE [views EXCEPT ![l].unknown_settings_keys = done]
                      /\ linted' = Some([listener |-> l, file_name |-> path,
                                         enabled |-> enabled,
                                         raised |-> done = AttributeError,
                                         cut |-> Len(keys)])
            \/ /\ main = None
               /\ Reloads(objs) < MaxReloads
               /\ known \notin {None, Unset}
               /\ in_user_path(path)
               /\ enabled
               /\ \E cut \in 1..(Len(keys) - 1) :
                     /\ objects' = [objs EXCEPT ![known.some] = ReplaceDefaults(@)]
                     /\ main' = [op |-> "trigger", listener |-> 0, id |-> known.some]
                     /\ views' = [views EXCEPT ![l].unknown_settings_keys =
                                      do_linting(listeners[l], views[l], path,
                                                 Tables(keys, objs[known.some].defaults,
                                                        cut),
                                                 enabled)]
                     /\ linted' = Some([listener |-> l, file_name |-> path,
                                        enabled |-> enabled, raised |-> FALSE,
                                        cut |-> cut])

\* the end of the running _load_settings: the on_loaded callback, which is
\* the do_linting of the listener that made the object
TaskEnd ==
    /\ tasks # <<>>
    /\ Head(tasks).pc = "scanning"
    /\ Head(tasks).idx > Len(Head(tasks).resources)
    /\ RunLinting(objects[Head(tasks).known_settings].listener,
                  [objects EXCEPT ![Head(tasks).known_settings] =
                      [@ EXCEPT !.on_loaded = @ + 1,
                                !.whole =
                                    IF Head(tasks).began
                                           = objects[Head(tasks).known_settings].triggers
                                    THEN @ + 1
                                    ELSE @]])
    /\ tasks' = Tail(tasks)
    /\ observed' = None
    /\ UNCHANGED listeners
    /\ UNCHANGED <<kbvars, psvars, scvars, vcvars, ccvars>>

\* on_query_completions at a key, on the main thread: the completions, or
\* the RuntimeError of the iteration over the dictionary (`dictionary
\* changed size during iteration`) when the running scan adds a key to it
\* meanwhile
QueryKeyCompletions ==
    /\ main = None
    /\ \E l \in 1..Len(listeners), q \in KeyQueries :
          /\ listeners[l].live
          /\ \/ /\ observed' =
                      Some([listener |-> l, kind |-> "key_completions", query |-> q,
                            answer |-> on_query_completions(listeners[l], objects, q)])
                /\ UNCHANGED <<objects, tasks>>
             \/ /\ listeners[l].known_settings # None
                /\ q.locations = 1
                /\ Scanning
                /\ Head(tasks).known_settings = listeners[l].known_settings.some
                /\ Head(tasks).op < Len(Writes)
                /\ Writes[Head(tasks).op + 1].map = "defaults"
                /\ Writes[Head(tasks).op + 1].key
                       \notin DOMAIN objects[Head(tasks).known_settings].defaults
                /\ objects' = ScanObjects
                /\ tasks' = ScanTasks
                /\ observed' =
                      Some([listener |-> l, kind |-> "key_completions", query |-> q,
                            answer |-> RuntimeError])
    /\ linted' = None
    /\ UNCHANGED <<listeners, views, main>>
    /\ UNCHANGED <<kbvars, psvars, scvars, vcvars, ccvars>>

\* build_tooltip for the n-th key of the view of the listener l
Hovered(l, n) ==
    build_tooltip(objects[listeners[l].known_settings.some], views[l].keys[n],
                  views[l].edit_settings_view = "base")

\* on_hover over a key, on the main thread: the popup it shows takes the
\* place of the one the view had, and its edit link stays to be clicked
QueryTooltip ==
    /\ main = None
    /\ \E l \in 1..Len(listeners) : \E n \in 1..Len(views[l].keys) :
          /\ listeners[l].live
          /\ listeners[l].known_settings # None
          /\ views[l].keys[n] \in HoverKeys
          /\ observed' =
                Some([listener |-> l, kind |-> "tooltip", key |-> views[l].keys[n],
                      answer |-> Hovered(l, n)])
          /\ views' = [views EXCEPT ![l].popup = Hovered(l, n).edit]
    /\ linted' = None
    /\ UNCHANGED <<listeners, objects, tasks, main>>
    /\ UNCHANGED <<kbvars, psvars, scvars, vcvars, ccvars>>

\* the snippets inserted so far
RECURSIVE Edits(_)
Edits(vs) == IF vs = <<>> THEN 0 ELSE Head(vs).edits + Edits(Tail(vs))

\* sublime.View(view_id) with what the host says of it, None when
\* is_valid() is false: no such view is open
UserView(view_id) ==
    IF view_id \in 1..Len(views) /\ listeners[view_id].live
    THEN Some(HostView(views[view_id]))
    ELSE None

\* what on_navigate does at a click on the edit link of the popup of the
\* view of the listener l
Clicked(l) ==
    on_navigate(objects[listeners[l].known_settings.some], views[l].popup.some,
                UserView(views[l].edit_settings_other_view_id))

\* on_navigate has a snippet inserted
Inserting(done) == done \notin {KeyError, ValueError} /\ done.done = "insert"

\* on_navigate, on the main thread: a click on the edit link of the popup
\* of a view.  The view the link leads to gets the caret at the key, or the
\* snippet of the key when it has none; the popup is hidden once that view
\* is found valid, also when insert_snippet raises after it.
Navigate ==
    /\ main = None
    /\ \E l \in 1..Len(listeners) :
          /\ listeners[l].live
          /\ listeners[l].known_settings # None
          /\ views[l].popup # None
          /\ Inserting(Clicked(l)) => Edits(views) < MaxEdits
          /\ observed' = Some([listener |-> l, kind |-> "navigate",
                               href |-> views[l].popup.some,
                               answer |-> Clicked(l)])
          /\ views' =
                IF UserView(views[l].edit_settings_other_view_id) = None
                THEN views
                ELSE IF Inserting(Clicked(l))
                THEN [views EXCEPT
                         ![l].popup = None,
                         ![views[l].edit_settings_other_view_id] =
                             Inserted(@, objects[listeners[l].known_settings.some],
                                      Drop(views[l].popup.some, 5))]
                ELSE [views EXCEPT ![l].popup = None]
    /\ linted' = None
    /\ UNCHANGED <<listeners, objects, tasks, main>>
    /\ UNCHANGED <<kbvars, psvars, scvars, vcvars, ccvars>>

\* on_modified_async: do_linting after a modification of the view, on the
\* thread that runs the scheduled scans and so not while one is running
QueryLinting ==
    /\ tasks # <<>> => Head(tasks).pc = "scheduled"
    /\ \E l \in 1..Len(listeners) :
          /\ listeners[l].live
          /\ listeners[l].known_settings # Unset
          /\ RunLinting(l, objects)
          /\ observed' =
                Some([listener |-> l, kind |-> "linting",
                      answer |-> views'[l].unknown_settings_keys])
    /\ UNCHANGED <<listeners, tasks>>
    /\ UNCHANGED <<kbvars, psvars, scvars, vcvars, ccvars>>

\* the object after all the statements `writes`
RECURSIVE WriteAll(_, _)
WriteAll(o, writes) ==
    IF writes = <<>> THEN o ELSE WriteAll(Write(o, Head(writes)), Tail(writes))

\* the statements of the iteration the running scan is about to make, done
\* one after the other, leave what LoadResource describes
PassIsLoadResource ==
    (Scanning /\ Head(tasks).op = 0) =>
        LET t == Head(tasks)
            o == objects[t.known_settings]
            pass == Pass(world, t.resources[t.idx])
            out == LoadResource(world, o.defaults, o.comments, t.resources[t.idx])
            end == WriteAll(o, pass.writes)
        IN  /\ end.defaults = out.defaults
            /\ end.comments = out.comments
            /\ pass.error = out.error
            /\ out = LoadResourceLookup(world, o.defaults, o.comments,
                                        t.resources[t.idx])

RunTask == TaskBegin \/ TaskResource \/ TaskEnd

\* the main thread goes on with the handler it is in
MainReturns == AssignKnownSettings \/ TriggerSchedule

NextReload ==
    \/ NewListener
    \/ AssignKnownSettings
    \/ TriggerReload
    \/ TriggerSchedule
    \/ DelListener
    \/ TaskBegin
    \/ TaskResource
    \/ TaskEnd
    \/ QueryKeyCompletions
    \/ QueryTooltip
    \/ Navigate
    \/ QueryLinting

SpecReload == InitReload /\ [][NextReload]_vars

\* listeners, reloads and scans without the queries and the deletions, which
\* change neither the maps nor the scheduled calls
NextLoad ==
    \/ NewListener
    \/ AssignKnownSettings
    \/ TriggerReload
    \/ TriggerSchedule
    \/ TaskBegin
    \/ TaskResource
    \/ TaskEnd

\* the host runs the calls it has scheduled, and the main thread ends the
\* handler it is in
SpecReloadFair ==
    InitReload /\ [][NextLoad]_vars /\ WF_vars(RunTask) /\ WF_vars(MainReturns)

-----------------------------------------------------------------------------
\* Properties of listeners, reloads and queries

\* the listeners made for a settings file
SettingsListeners == {l \in 1..Len(listeners) : listeners[l].known_settings # None}

\* the listeners whose attribute known_settings is an object
Holders ==
    {l \in 1..Len(listeners) : listeners[l].known_settings \notin {None, Unset}}

\* C12 (as claimed): listeners of the same settings file name share one
\* KnownSettings object, and no file name gets more than one object, hence
\* more than one scan from the creation of listeners.
C12_SingletonPerFileName ==
    /\ \A l1, l2 \in Holders :
          listeners[l1].file = listeners[l2].file
              => listeners[l1].known_settings = listeners[l2].known_settings
    /\ \A i, j \in 1..Len(objects) :
          objects[i].filename = objects[j].filename => i = j

\* C12 (amended): every listener of a .sublime-settings file has a
\* KnownSettings object of its own, made for its file name and assigned to
\* it when its __init__ ends, other listeners have none, and every object
\* has as many scans, scheduled or finished, as trigger_settings_reload was
\* called on it, the first call being the one of its construction.
C12_OneObjectPerListener ==
    /\ \A l \in 1..Len(listeners) :
          (listeners[l].known_settings # None)
              <=> (listeners[l].file[2] = ".sublime-settings")
    /\ \A l \in SettingsListeners :
          (listeners[l].known_settings = Unset)
              <=> (main # None /\ main.op = "init" /\ main.listener = l)
    /\ \A l \in Holders :
          /\ listeners[l].known_settings.some \in 1..Len(objects)
          /\ objects[listeners[l].known_settings.some].filename = listeners[l].file
          /\ objects[listeners[l].known_settings.some].listener = l
    /\ \A i, j \in 1..Len(objects) :
          objects[i].listener = objects[j].listener => i = j
    /\ Len(objects) = Cardinality(SettingsListeners)
    /\ \A id \in 1..Len(objects) :
          /\ objects[id].triggers >= 1
          /\ objects[id].on_loaded + Cardinality(Pending(id))
                 + (IF Calling(id) THEN 1 ELSE 0) = objects[id].triggers

\* two listeners of the same file name, each with its own object and its own
\* finished scan of the same resources
C12_Witness ==
    \E l1, l2 \in Holders :
        /\ l1 # l2
        /\ listeners[l1].file = listeners[l2].file
        /\ listeners[l1].known_settings # listeners[l2].known_settings
        /\ tasks = <<>>
        /\ objects[listeners[l1].known_settings.some].on_loaded >= 1
        /\ objects[listeners[l2].known_settings.some].on_loaded >= 1
        /\ objects[listeners[l1].known_settings.some].defaults # <<>>
        /\ objects[listeners[l1].known_settings.some].defaults
               = objects[listeners[l2].known_settings.some].defaults

\* a step in which trigger_settings_reload is called on the object `id`, new
\* or not
Triggers(id) ==
    /\ id \in 1..Len(objects')
    /\ objects'[id].triggers = (IF id <= Len(objects) THEN objects[id].triggers ELSE 0) + 1

\* a step in which a call of trigger_settings_reload on the object `id`
\* returns
Triggered(id) ==
    \/ id \in (1..Len(objects')) \ (1..Len(objects))
    \/ Calling(id) /\ main' = None

\* C13: a call of trigger_settings_reload replaces `defaults` by an empty
\* map with its first assignment and `comments` by an empty map with its
\* second, and adds one scheduled scan behind the scheduled scans there
\* are, none of which is removed; and once the call has returned every
\* entry of `defaults` and `comments` was written after the start of the
\* last call of trigger_settings_reload on its object, at any time and so
\* when all the scheduled scans have run.
C13_ReloadReplacesMaps ==
    /\ [][\A id \in 1..Len(objects') :
             /\ Triggers(id) => objects'[id].defaults = <<>>
             /\ Triggered(id) =>
                   /\ objects'[id].comments = <<>>
                   /\ tasks' = Append(tasks, ScheduledLoad(id))]_vars
    /\ [](\A id \in 1..Len(objects) :
             /\ DOMAIN objects[id].since.defaults = DOMAIN objects[id].defaults
             /\ DOMAIN objects[id].since.comments = DOMAIN objects[id].comments
             /\ \A k \in DOMAIN objects[id].defaults :
                    objects[id].since.defaults[k] = objects[id].triggers
             /\ ~Calling(id) =>
                    \A k \in DOMAIN objects[id].comments :
                        objects[id].since.comments[k] = objects[id].triggers)

\* a reload was triggered on an object whose maps held entries, every
\* scheduled scan has run, and the maps hold entries again
C13_Witness ==
    \E id \in 1..Len(objects) :
        /\ objects[id].triggers >= 2
        /\ objects[id].replaced
        /\ tasks = <<>>
        /\ main = None
        /\ objects[id].on_loaded = objects[id].triggers
        /\ objects[id].defaults # <<>>
        /\ objects[id].comments # <<>>

\* C14 (as claimed): a query is answered in the step it is made, whatever
\* scans are scheduled or running, from the maps its object has at that
\* moment: the keys completed are those of `defaults`, the tooltip knows a
\* key when it is in `defaults` and shows its comment from `comments`, and
\* the linter marks the keys not in `defaults`; the query changes neither
\* the maps nor the scheduled scans.
C14_QueriesSeeCurrentMaps ==
    [][(observed' # None /\ listeners[observed'.some.listener].known_settings # None
          /\ observed'.some.kind \in {"key_completions", "tooltip", "linting"}
          /\ (observed'.some.kind = "key_completions"
                 => observed'.some.query.locations = 1)) =>
          /\ UNCHANGED <<listeners, objects, tasks>>
          /\ observed'.some.answer # RuntimeError
          /\ LET q == observed'.some
                 o == objects[listeners[q.listener].known_settings.some]
             IN  CASE q.kind = "key_completions" ->
                          /\ q.answer # None
                          /\ Len(q.answer.some.completions) = Cardinality(DOMAIN o.defaults)
                          /\ \A n \in 1..Len(q.answer.some.completions) :
                                /\ o.order[n] \in DOMAIN o.defaults
                                /\ q.answer.some.completions[n][1] =
                                       o.order[n] \o <<" ", " ", "\t", "s", "e", "t",
                                                       "t", "i", "n", "g">>
                   [] q.kind = "tooltip" ->
                          /\ q.answer.known <=> q.key \in DOMAIN o.defaults
                          /\ q.answer.comment \in
                                 {html_encode(o.comments[k]) :
                                     k \in DOMAIN o.comments \cap {q.key}}
                                     \cup {NoDescription}
                   [] q.kind = "linting" ->
                          \/ q.answer = None
                          \/ q.answer =
                                 Some({views[q.listener].keys[n] :
                                          n \in 1..Len(views[q.listener].keys)}
                                      \ DOMAIN o.defaults)]_vars

\* C15: when the host runs the calls it has scheduled, the scan of every
\* call of trigger_settings_reload finishes with its on_loaded callback; the
\* callback is made once per scheduled scan, by the running scan after the
\* loop has gone through every resource of its list, also past those that
\* failed.
C15_EveryReloadFinishes ==
    /\ \A id \in 1..MaxListeners, n \in 1..(MaxReloads + 1) :
          (id <= Len(objects) /\ objects[id].triggers >= n)
              ~> (id <= Len(objects) /\ objects[id].on_loaded >= n)
    /\ [][\A id \in 1..Len(objects) :
             objects'[id].on_loaded # objects[id].on_loaded =>
                 /\ tasks # <<>>
                 /\ Head(tasks).known_settings = id
                 /\ Head(tasks).pc = "scanning"
                 /\ Head(tasks).seen = Len(Head(tasks).resources)
                 /\ objects'[id].on_loaded = objects[id].on_loaded + 1
                 /\ tasks' = Tail(tasks)]_vars
    /\ [](\A id \in 1..Len(objects) :
             objects[id].on_loaded + Cardinality(Pending(id))
                 + (IF Calling(id) THEN 1 ELSE 0) = objects[id].triggers)

\* every scheduled scan of a reloaded object has finished with its callback
\* although every resource failed
C15_Witness ==
    \E id \in 1..Len(objects) :
        /\ objects[id].triggers >= 2
        /\ objects[id].on_loaded = objects[id].triggers
        /\ tasks = <<>>
        /\ scan_list(world, objects[id].filename) # <<>>
        /\ objects[id].defaults = <<>>

\* the file of the view of listener `l` lies in the User package
InUserPackage(l) ==
    LET path == linted.some.file_name
    IN  path[Len(path) - 2] = "Packages" /\ path[Len(path) - 1] = "User"

\* the object made for the listener `l`
ObjectOf(l) == CHOOSE id \in 1..Len(objects) : objects[id].listener = l

\* the region set that marks the keys of the view of `l` not in `table`
Marked(l, table) ==
    LET keys == {views[l].keys[n] : n \in 1..Len(views[l].keys)}
    IN  IF /\ listeners[l].known_settings # None
           /\ InUserPackage(l)
           /\ linted.some.enabled
           /\ keys \ DOMAIN table # {}
        THEN Some(keys \ DOMAIN table)
        ELSE None

\* C21 (as claimed): after a run of do_linting, from on_modified_async or as
\* the on_loaded callback of a scan, the region set 'unknown_settings_keys'
\* of the view holds the keys of the view that are not keys of `defaults`
\* when the listener has a KnownSettings object, the file is in the User
\* package and linting is enabled, and is erased otherwise and when there
\* is no such key; when no scan of the object is scheduled or running any
\* more, the keys marked are those the table of a whole scan does not have.
C21_LintingMarksUnknownKeys ==
    linted # None =>
        LET l == linted.some.listener
            made == listeners[l].known_settings # None
        IN  /\ views[l].unknown_settings_keys =
                   Marked(l, IF made THEN objects[ObjectOf(l)].defaults ELSE <<>>)
            /\ (made /\ Pending(ObjectOf(l)) = {} /\ ~Calling(ObjectOf(l))) =>
                   views[l].unknown_settings_keys =
                       Marked(l, load_settings(world, <<>>,
                                               scan_list(world, listeners[l].file)))

\* the maps a single scan of the resources of the object `id` fills when it
\* starts on two empty maps
SingleScan(id) ==
    LET paths == scan_list(world, objects[id].filename)
    IN  [defaults |-> load_settings(world, <<>>, paths),
         comments |-> load_comments(world, <<>>, paths)]

\* C24: once a scan of an object has run from its start to its end on the
\* maps the object has, no later scan on the same maps changes `defaults` or
\* `comments`: only a call of trigger_settings_reload does.  When the scans
\* found the maps empty, as the two scans do that two calls of
\* trigger_settings_reload scheduled before either scan began, the maps
\* after one scan and after any number of them are those a single scan of
\* the resources produces.
C24_ScanIsIdempotent ==
    /\ [][\A id \in 1..Len(objects) :
             (objects[id].whole >= 1 /\ objects'[id].triggers = objects[id].triggers)
                 => /\ objects'[id].defaults = objects[id].defaults
                    /\ objects'[id].comments = objects[id].comments]_vars
    /\ [](\A id \in 1..Len(objects) :
             (objects[id].whole >= 1 /\ ~objects[id].replaced)
                 => /\ objects[id].defaults = SingleScan(id).defaults
                    /\ objects[id].comments = SingleScan(id).comments)

\* two reloads were triggered on an object before either scheduled scan
\* began, both scans have run, and the maps hold entries
C24_Witness ==
    \E id \in 1..Len(objects) :
        /\ objects[id].triggers = 2
        /\ objects[id].whole = 2
        /\ Pending(id) = {}
        /\ objects[id].defaults # <<>>
        /\ objects[id].comments # <<>>

-----------------------------------------------------------------------------
\* Properties of the comment scanner (specification SpecParse)

\* C17: scanning the lines kept so far once more, with the comments recorded
\* so far, keeps each of them, records no further comment and leaves no
\* comment pending; at the end of the scan this is the second run of the
\* scanner on the lines the first run produced.
C17_StrippingIdempotent ==
    LET again == ParseLines(ParseStart(comments), scan.content)
    IN  /\ again.content = scan.content
        /\ again.comments = comments
        /\ again.comment = <<>>
        /\ ~again.in_comment

\* a finished scan that dropped comment lines, kept other lines and recorded
\* a comment
C17_Witness ==
    /\ lineno = Len(lines)
    /\ scan.content # <<>>
    /\ Len(scan.content) < Len(lines)
    /\ \E key \in DOMAIN comments : comments[key] # Earlier

\* whether a block comment is open after the lines `ls`, as claimed: a line
\* starting with /* outside a block comment opens one, and the first line
\* from there on that ends with */ closes it
RECURSIVE BlockOpenAsClaimed(_, _)
BlockOpenAsClaimed(open, ls) ==
    IF ls = <<>> THEN open
    ELSE LET stripped == Strip(Head(ls))
             opens == ~open /\ StartsWith(stripped, <<"/", "*">>)
         IN  BlockOpenAsClaimed((open \/ opens) /\ ~EndsWith(stripped, <<"*", "/">>),
                                Tail(ls))

\* C18 (as claimed): a line that is not empty, does not start with /* or //
\* and comes when no block comment is open, a block comment being closed by
\* the first line from its opening line on that ends with */, is kept in
\* the text to decode.
C18_BlockCommentEnds ==
    [][lineno' = lineno + 1 =>
          LET line == lines[lineno + 1]
              stripped == Strip(line)
          IN  (/\ ~BlockOpenAsClaimed(FALSE, SubSeq(lines, 1, lineno))
               /\ stripped # <<>>
               /\ ~StartsWith(stripped, <<"/", "*">>)
               /\ ~StartsWith(stripped, <<"/", "/">>))
                  => scan'.content = Append(scan.content, line)]_vars

-----------------------------------------------------------------------------
\* PackagedevCommitScopeCompletionCommand in a syntax definition view with
\* one caret: the user types a scope, asks for completions, and commits one
\* of them with the command.

\* what the selector of the base scope can find: nothing, one scope, or one
\* scope that ends with a dot
RegionChoicesCommit ==
    { <<>>,
      << <<"source", ".", "python">> >>,
      << <<"source", ".">> >> }

\* the line from the caret on: the caret at the end of the scope, or in
\* front of a dot when the scope is edited in the middle
AfterChoices == { <<>>, <<".", "block">> }

\* the completions the user picks from the list that was returned, by the
\* text they put in; others are committed in the same way
PickedTriggers == { <<"comment">>, <<"block">>, <<"python">>, <<>> }

\* the host's commit_completion: the picked completion takes the place of
\* what is typed of the last segment
CommitCompletion(text, trigger) ==
    IF text # <<>> /\ text[Len(text)] # "."
    THEN SubSeq(text, 1, Len(text) - 1) \o trigger
    ELSE text \o trigger

\* Python's truth value of listener.base_suffix: None and "" are false
Truth(suffix) == suffix # None /\ suffix.some # <<>>

\* view.substr(view.sel()[0].a): the character at the caret
CharAtCaret(aft) == IF aft = <<>> THEN <<>> ELSE <<Head(aft)>>

\* view.substr(Region(point - n - 1, point)) for the n characters of the
\* pieces `suffix`: the pieces of the text before the caret that spell its
\* last n + 1 characters, the whole text where it has fewer
RegionBefore(before, suffix) ==
    IF Len(before) <= Len(suffix) THEN before
    ELSE SubSeq(before, Len(before) - Len(suffix), Len(before))

\* mutant: the dot is inserted without asking for completions again
run_without_auto_complete(committed, aft, listener) ==
    IF \/ CharAtCaret(aft) = <<".">>
       \/ /\ listener # None
          /\ Truth(listener.some.base_suffix)
          /\ RegionBefore(committed, listener.some.base_suffix.some)
                 = <<".">> \o listener.some.base_suffix.some
    THEN [before |-> committed, commands |-> << <<"commit_completion">> >>]
    ELSE [before |-> Append(committed, "."),
          commands |-> << <<"commit_completion">>, <<"insert", ".">> >>]

\* PackagedevCommitScopeCompletionCommand.run, given the text before the
\* caret as commit_completion left it: the text before the caret and the
\* host commands run, in their order
run(committed, aft, listener) ==
    IF CharAtCaret(aft) = <<".">>
    THEN [before |-> committed, commands |-> << <<"commit_completion">> >>]
    ELSE IF /\ listener # None
            /\ Truth(listener.some.base_suffix)
            /\ RegionBefore(committed, listener.some.base_suffix.some)
                   = <<".">> \o listener.some.base_suffix.some
    THEN [before |-> committed, commands |-> << <<"commit_completion">> >>]
    ELSE [before |-> Append(committed, "."),
          commands |-> << <<"commit_completion">>, <<"insert", ".">>,
                          <<"auto_complete">> >>]

InitCommit ==
    /\ regions \in RegionChoicesCommit
    /\ carets = <<>>
    /\ typed = <<>>
    /\ base_suffix = None
    /\ result = NoQuery
    /\ statuses = <<>>
    /\ after \in AfterChoices
    /\ commands = <<>>
    /\ IdleKnownSettings
    /\ comments = <<>>
    /\ IdleParse
    /\ IdleValue
    /\ IdleReload

\* the texts commit_completion can leave before the caret: a completion of
\* the list the last query returned is committed, or, with no list shown,
\* nothing is
Committed ==
    {typed} \cup
    (IF Returned
     THEN {CommitCompletion(typed, result.some[i].trigger) :
              i \in {j \in 1..Len(result.some) :
                        result.some[j].trigger \in PickedTriggers}}
     ELSE {})

\* the user runs the command
CommitScopeCompletion ==
    /\ Len(typed) < MaxTyped
    /\ \E committed \in Committed :
          LET out == run(committed, after, Some([base_suffix |-> base_suffix]))
          IN  /\ typed' = out.before
              /\ commands' = out.commands
    /\ result' = NoQuery
    /\ statuses' = <<>>
    /\ UNCHANGED <<regions, carets, base_suffix, after>>
    /\ UNCHANGED <<kbvars, psvars, vcvars, rlvars>>

NextCommit ==
    \/ TypeAtom
    \/ DeleteAtom
    \/ QueryScope
    \/ CommitScopeCompletion

SpecCommit == InitCommit /\ [][NextCommit]_vars

-----------------------------------------------------------------------------
\* Properties of base_suffix and of the commit command

\* C19 (as claimed): when a completion query has been answered for the text
\* as it stands, base_suffix is set only if that query returned the base
\* suffix completion.
C19_SuffixOnlyWhenOffered ==
    result # NoQuery => (base_suffix # None => Offered)

\* the text ending at the caret is a dot followed by the base suffix
EndsWithDotSuffix(text, suffix) ==
    /\ Len(text) >= Len(suffix) + 1
    /\ SubSeq(text, Len(text) - Len(suffix), Len(text)) = <<".">> \o suffix

\* the commands of a step of the commit command are as they should be when
\* the command is to stop after the commit exactly if `stop` holds of the
\* text before the caret it found after the commit
CommitStep(stop(_)) ==
    commands' # <<>> =>
        /\ commands'[1] = <<"commit_completion">>
        /\ \/ /\ commands' = << <<"commit_completion">> >>
              /\ stop(typed')
           \/ /\ commands' = << <<"commit_completion">>, <<"insert", ".">>,
                                <<"auto_complete">> >>
              /\ typed' # <<>>
              /\ typed'[Len(typed')] = "."
              /\ ~stop(SubSeq(typed', 1, Len(typed') - 1))

\* C20 (as claimed): the command commits first; it stops there when the
\* character at the caret is a dot or the text ending at the caret is a dot
\* followed by the listener's base suffix, and else inserts a dot and then
\* asks for completions again.
C20_CommitThenDot ==
    [][CommitStep(LAMBDA text :
           \/ (after # <<>> /\ after[1] = ".")
           \/ (base_suffix # None /\ EndsWithDotSuffix(text, base_suffix.some)))]_vars

\* C20 (amended): as claimed, for a base suffix that is not empty; with an
\* empty base suffix the dot is inserted also behind a dot.
C20_CommitThenDotUnlessSuffix ==
    [][CommitStep(LAMBDA text :
           \/ (after # <<>> /\ after[1] = ".")
           \/ (/\ base_suffix # None
               /\ base_suffix.some # <<>>
               /\ EndsWithDotSuffix(text, base_suffix.some)))]_vars

\* the base suffix was committed behind a dot, with nothing at the caret,
\* and the command stopped after the commit
C20_Witness ==
    /\ commands = << <<"commit_completion">> >>
    /\ after = <<>>
    /\ base_suffix = Some(<<"python">>)
    /\ EndsWithDotSuffix(typed, <<"python">>)

====
